---- MODULE Spec2Model ----
(***************************************************************************)
(* The Cloudflare clearance solver of src/src/cf_solver/solver_zendriver.py *)
(* (class CloudflareSolver and the command line flow main), together with   *)
(* the two other flows that drive the same solver:                          *)
(*   run_solver._solve           src/src/components/solver_runner.py        *)
(*   solve_cloudflare_challenge  src/pages/solver.py                        *)
(*                                                                          *)
(* The browser is the environment: what it holds (cookies, page markup,     *)
(* the widget) changes on its own between two awaited round trips, so each  *)
(* round trip that reads it returns any value, and any round trip may       *)
(* raise.  Time is counted in ticks of a quarter of a second, the length of *)
(* the debounce sleep of solve_challenge; only solve_challenge reads the    *)
(* clock, and only its steps are timed.                                     *)
(***************************************************************************)
EXTENDS Integers, Sequences, FiniteSets, TLC

(***************************************************************************)
(* Bounds of the model                                                      *)
(***************************************************************************)
\* longest duration of one remote round trip, in ticks
MaxRT == 1
\* largest number of fragments of a page markup
MaxFrags == 2
\* the click counter saturates here
MaxClicks == 1
\* longest list of cookies handed to extract_clearance_cookie on its own
MaxCookies == 3
\* the longest list of cookies handed to sanitize_cookies
MaxSanitized == 2

(***************************************************************************)
(* Program constants                                                        *)
(***************************************************************************)
\* asyncio.sleep(0.25) is one tick, so a second is four ticks
TicksPerSecond == 4
\* asyncio.sleep(0.25), the debounce wait
DebounceTicks == 1
\* a plausible slip: a settle wait of two seconds
SettleTwoSeconds == 2 * TicksPerSecond
\* asyncio.sleep(1), the settle wait
SettleTicks == 4
\* timedelta.seconds is the seconds component of a duration: it wraps at a day
SecondsPerDay == 86400

None == "None"

(***************************************************************************)
(* ChallengePlatform and detect_challenge                                   *)
(***************************************************************************)
\* a plausible slip: the members in another order
ChallengePlatformReordered == <<"JAVASCRIPT", "INTERACTIVE", "MANAGED">>

\* the members of the enum, in definition order (the order `for platform in
\* ChallengePlatform` visits them)
ChallengePlatform == <<"JAVASCRIPT", "MANAGED", "INTERACTIVE">>

\* platform.value
PlatformValue(p) ==
    CASE p = "JAVASCRIPT"  -> "non-interactive"
      [] p = "MANAGED"     -> "managed"
      [] p = "INTERACTIVE" -> "interactive"

\* f"cType: '{platform.value}'"
Marker(p) ==
    CASE PlatformValue(p) = "non-interactive" -> "cType: 'non-interactive'"
      [] PlatformValue(p) = "managed"         -> "cType: 'managed'"
      [] PlatformValue(p) = "interactive"     -> "cType: 'interactive'"

\* the pieces a page markup is made of: the three markers and text that is
\* no marker (a marker of another case is no marker)
Fragments ==
    { "cType: 'non-interactive'", "cType: 'managed'", "cType: 'interactive'",
      "cType: 'Managed'", "<input type='checkbox'>" }

\* every sequence over S of length at most n
SeqUpTo(S, n) == UNION { [1..k -> S] : k \in 0..n }

\* the page markups get_content returns
Pages == SeqUpTo(Fragments, MaxFrags)

\* marker in html
Contains(html, marker) == \E i \in 1..Len(html) : html[i] = marker

\* the for loop of detect_challenge from the i-th platform on
RECURSIVE DetectFrom(_, _)
DetectFrom(html, i) ==
    IF i > Len(ChallengePlatform) THEN None
    ELSE IF Contains(html, Marker(ChallengePlatform[i])) THEN ChallengePlatform[i]
    ELSE DetectFrom(html, i + 1)

\* a plausible slip: the marker is looked for whatever its case
DetectIgnoringCase(html) ==
    IF DetectFrom(html, 1) = None /\ Contains(html, "cType: 'Managed'")
    THEN "MANAGED"
    ELSE DetectFrom(html, 1)

\* a plausible slip: only the first two platforms are looked for
DetectFirstTwo(html) ==
    IF Contains(html, Marker(ChallengePlatform[1])) THEN ChallengePlatform[1]
    ELSE IF Contains(html, Marker(ChallengePlatform[2])) THEN ChallengePlatform[2]
    ELSE None

\* a plausible slip: the platform of the marker that comes first in the markup
DetectFirstInMarkup(html) ==
    LET hits == { i \in 1..Len(html) :
                    \E k \in 1..Len(ChallengePlatform) :
                        html[i] = Marker(ChallengePlatform[k]) }
        first == CHOOSE i \in hits : \A j \in hits : i <= j
    IN  IF hits = {} THEN None
        ELSE CHOOSE p \in { ChallengePlatform[k] : k \in 1..Len(ChallengePlatform) } :
                 html[first] = Marker(p)

\* the platforms whose marker is in html
MarkersIn(html) ==
    { ChallengePlatform[k] : k \in { i \in 1..Len(ChallengePlatform) :
                                        Contains(html, Marker(ChallengePlatform[i])) } }

\* detect_challenge on the markup get_content returned
DetectChallenge(html) == DetectFrom(html, 1)

(***************************************************************************)
(* Cookies                                                                  *)
(***************************************************************************)
SessionCookie ==
    [name |-> "session", value |-> "s1", domain |-> "example.com", expires |-> 10]
ClearanceA ==
    [name |-> "cf_clearance", value |-> "abc", domain |-> "example.com", expires |-> 20]
ClearanceB ==
    [name |-> "cf_clearance", value |-> "xyz", domain |-> "cdn.example.net", expires |-> 30]

\* the cookies the browser returns in the flows: without a clearance cookie,
\* with one after another cookie, and with two of them
FlowJars ==
    { << >>, <<SessionCookie>>, <<SessionCookie, ClearanceA>>,
      <<ClearanceB, ClearanceA>> }

\* a plausible slip: the expiry is lost in the conversion
ToJsonWithoutExpiry(cookie) ==
    [name |-> cookie.name, value |-> cookie.value,
     domain |-> cookie.domain, expires |-> 0]

\* Cookie.to_json
ToJson(cookie) ==
    [name |-> cookie.name, value |-> cookie.value,
     domain |-> cookie.domain, expires |-> cookie.expires]

\* _format_cookies
FormatCookies(cookies) == [i \in 1..Len(cookies) |-> ToJson(cookies[i])]

\* a cookie named cf_clearance is among cookies
HasClearance(cookies) == \E i \in 1..Len(cookies) : cookies[i].name = "cf_clearance"

\* the None extract_clearance_cookie returns
NoCookie == [name |-> None]

\* the for loop of extract_clearance_cookie from the i-th cookie on
RECURSIVE ExtractFrom(_, _)
ExtractFrom(cookies, i) ==
    IF i > Len(cookies) THEN NoCookie
    ELSE IF cookies[i].name = "cf_clearance" THEN cookies[i]
    ELSE ExtractFrom(cookies, i + 1)

\* a plausible slip: the last cookie of that name wins
RECURSIVE ExtractLastClearanceCookie(_)
ExtractLastClearanceCookie(cookies) ==
    IF cookies = << >> THEN NoCookie
    ELSE IF cookies[Len(cookies)].name = "cf_clearance" THEN cookies[Len(cookies)]
    ELSE ExtractLastClearanceCookie(SubSeq(cookies, 1, Len(cookies) - 1))

\* a plausible slip: the name is not compared, the first cookie is returned
ExtractAnyCookie(cookies) == IF cookies = << >> THEN NoCookie ELSE cookies[1]

\* extract_clearance_cookie
ExtractClearanceCookie(cookies) == ExtractFrom(cookies, 1)

\* cookies whose name is close to the marker: another case, a longer name
UpperCaseCookie ==
    [name |-> "CF_CLEARANCE", value |-> "upper", domain |-> "example.com", expires |-> 40]
LongerNameCookie ==
    [name |-> "cf_clearance_v2", value |-> "longer", domain |-> "example.com", expires |-> 50]

(***************************************************************************)
(* User agent channels                                                      *)
(***************************************************************************)
\* the user agent the flow chose (get_chrome_user_agent or --user-agent)
ChosenUserAgent == "Mozilla/5.0 Chrome/120.0.0.0"
\* the user agent built into the browser
BrowserUserAgent == "Mozilla/5.0 HeadlessChrome/119.0.0.0"

\* a user agent of Chrome 8, and one that names no browser version
OldChromeUserAgent == "Mozilla/5.0 Chrome/8.0.552.224"
ToolUserAgent == "curl"

\* the user agents a flow can be given: get_chrome_user_agent() picks a
\* current Chrome, --user-agent takes any string
UserAgents == { ChosenUserAgent, OldChromeUserAgent, ToolUserAgent }

\* device.browser.version of user_agents.parse(user_agent): the numbers of the
\* browser's version, none when the string names no browser version
BrowserVersion(ua) ==
    CASE ua = ChosenUserAgent    -> <<120, 0, 0, 0>>
      [] ua = BrowserUserAgent   -> <<119, 0, 0, 0>>
      [] ua = OldChromeUserAgent -> <<8, 0, 552, 224>>
      [] OTHER                   -> << >>

\* device.browser.version[0] raises IndexError: the version is empty
NoMajorVersion(ua) == BrowserVersion(ua) = << >>

\* device.browser.version[0]
MajorVersion(ua) == BrowserVersion(ua)[1]

\* the brand of the first entry of both lists, with its fixed version "8"
GreaseBrand == [brand |-> "Not)A;Brand", version |-> 8]

\* a plausible slip: the full version list built from another user agent
UserAgentMetadataStaleList(ua) ==
    [brands |-> << GreaseBrand,
                   [brand |-> "Google Chrome", version |-> MajorVersion(ua)] >>,
     fullVersionList |-> << GreaseBrand,
                   [brand |-> "Google Chrome",
                    version |-> MajorVersion(BrowserUserAgent)] >>,
     of |-> ua]

\* the brands set_user_agent_metadata lists after the first entry:
\* src/pages/solver.py lists Chromium too
VersionedBrands(flow) ==
    IF flow = "solve_cloudflare_challenge" THEN <<"Chromium", "Google Chrome">>
    ELSE <<"Google Chrome">>

\* the brand list of set_user_agent_metadata; brands and full_version_list
\* are built by the same expressions
BrandList(flow, ua) ==
    <<GreaseBrand>> \o [i \in 1..Len(VersionedBrands(flow)) |->
                          [brand |-> VersionedBrands(flow)[i],
                           version |-> MajorVersion(ua)]]

\* the client hints the browser sends when nothing overrides them
BrowserMetadata ==
    [brands |-> << GreaseBrand,
                   [brand |-> "Google Chrome", version |-> MajorVersion(BrowserUserAgent)] >>,
     fullVersionList |-> << GreaseBrand,
                   [brand |-> "Google Chrome", version |-> MajorVersion(BrowserUserAgent)] >>,
     of |-> BrowserUserAgent]

(***************************************************************************)
(* State                                                                    *)
(***************************************************************************)
VARIABLES
    caller,             \* "main", "run_solver" or "solve_cloudflare_challenge"
    cdp_url,            \* None (standalone mode) or the endpoint (attach mode)
    timeout,            \* self._timeout, in ticks
    proxy,              \* self.proxy (args.proxy): None or the proxy's address
    http2,              \* self.http2 (not args.disable_http2)
    http3,              \* self.http3 (not args.disable_http3)
    mode,               \* main's local `mode`: "CDP" or "standalone"
    launchArgs,         \* the arguments __aenter__ added to the launch config
    proxyInjected,      \* enrich_chrome_options put a proxy into the launch config
    connectedTo,        \* the endpoint handed to zendriver.Browser.connect
    pc,                 \* the awaited call the flow is at
    driver,             \* self.driver: None, "unstarted", "open" or "stopped"
    scriptUA,           \* navigator.userAgent as scripts see it
    wireUA,             \* the User-Agent header the browser sends
    wireMeta,           \* the user agent metadata (client hints) it sends
    fed,                \* the user agent of the override command feed_cdp
                        \* scheduled and the connection has yet to send
    now,                \* datetime.now(), in ticks
    start_timestamp,    \* of solve_challenge
    current_cookies,    \* of run_solver._solve
    all_cookies,
    clearance_cookie,
    challenge_platform,
    user_agent,         \* the user agent reported with the result
    outcome,            \* how the flow ended
    log,                \* what the flow told its user, in order
    store,              \* the records json.dump wrote to args.file
    result,             \* what the flow handed to its caller or user
    commands,           \* the commands main logged: name and proxy part
    file,               \* the backing file args.file names, shared by the runs
    fileAtStart,        \* history: that file before any run touched it
    persist,            \* where each persisting run of main is, lines 553-580
    json_data,          \* the json_data of each persisting run
    cookieOf,           \* the clearance_cookie of each persisting run
    firstSnapshot,      \* history: the cookies the first get_all returned
    firstMarkers,       \* history: the platforms whose marker was in the markup
                        \* the first get_content returned
    snapshotTaken,      \* history: that snapshot was taken
    solveEntered,       \* history: solve_challenge was called
    loopChecked,        \* history: the loop condition was evaluated
    contentRead,        \* history: get_content was called
    metaApplied,        \* history: set_user_agent_metadata fed its command
    clicks,             \* history: mouse_click calls dispatched (saturating)
    loopExit,           \* history: why solve_challenge returned
    lastCheck,          \* history: what the last evaluation of the loop
                        \* condition read
    widgetView,         \* history: what the lookup of the widget showed in
                        \* the iteration at hand
    faults,             \* history: a remote call raised
    stampRun,           \* a record being stamped for the file: the cookie's
                        \* expiry, the time of the solve, what was stored
    parseRun,           \* a call of parse_cdp_target: its endpoint and result
    solverCall,         \* a call of run_solver: the thread, its loop, _solve
    fetchRequest,       \* a fetch request of a scraper page
    lightpanda,         \* a call of ensure_lightpanda_server: the port, the
                        \* server process, the clock and the call's position
    sanitizeRun         \* a call of sanitize_cookies: its argument and result

\* the file and the runs that persist to it: no step of a session touches them
persistence == <<file, fileAtStart, persist, json_data, cookieOf>>
\* the functions around the solver, each called on its own: no step of a
\* session or of a persisting run touches them
components == <<stampRun, parseRun, solverCall, fetchRequest, lightpanda,
                sanitizeRun>>
options == <<caller, cdp_url, timeout, proxy, http2, http3, mode, persistence,
             components>>
launch  == <<launchArgs, proxyInjected, connectedTo>>
\* what no step after the session's setup changes
config  == <<options, launch>>
browser == <<scriptUA, wireUA, wireMeta, fed>>
locals  == <<start_timestamp, current_cookies, all_cookies, clearance_cookie,
             challenge_platform, user_agent>>
control == <<pc, driver, outcome, log>>
history == <<firstSnapshot, firstMarkers, snapshotTaken, solveEntered, loopChecked,
             contentRead, metaApplied, clicks, loopExit, lastCheck, widgetView>>
output  == <<store, result, commands>>
vars    == <<config, browser, now, locals, control, output, history, faults>>

\* the UserAgentMetadata set_user_agent_metadata builds from user_agent, in the flow at hand
UserAgentMetadata(ua) ==
    [brands |-> BrandList(caller, ua),
     fullVersionList |-> BrandList(caller, ua),
     of |-> ua]

\* nothing was handed over (yet)
NoResult == [clearance |-> NoCookie, cookies |-> << >>, user_agent |-> None]

Callers == { "main", "run_solver", "solve_cloudflare_challenge" }

\* the deadlines of the model, in ticks: 1 s and 1.5 s
Timeouts == { TicksPerSecond, TicksPerSecond + 2 }

\* the modes a caller can ask for: only main takes --cdp-url
CdpUrls(c) == IF c = "main" THEN { None, "ws://127.0.0.1:9222" } ELSE { None }

\* self._standalone_mode
StandaloneMode == cdp_url = None

\* main's `if args.cdp_url:`, the test that sets its local `mode`; the other
\* flows have no such local and launch their browser
MainMode(url) == IF url # None /\ url # "" THEN "CDP" ELSE "standalone"

(***************************************************************************)
(* The backing file of the cookie store                                     *)
(***************************************************************************)
\* the runs of main that persist to the same file at the same time
Writers == { 1, 2 }

\* the domains a file holds records of: those of the clearance cookies and
\* one more
Domains == { ClearanceA.domain, ClearanceB.domain, "other.org" }

\* json_data = {}: no domain has a record
EmptyDict == [domain \in Domains |-> << >>]

\* open() raises FileNotFoundError
Missing == [kind |-> "missing", data |-> EmptyDict]

\* json.load raises JSONDecodeError: the text is not JSON; an empty file,
\* as open(args.file, "w") leaves it, is such a text
Corrupt == [kind |-> "corrupt", data |-> EmptyDict]

\* the file json.dump(data) wrote, which json.load reads as data again
Json(data) == [kind |-> "json", data |-> data]

\* no run of main is persisting
NotPersisting ==
    /\ file = Missing
    /\ fileAtStart = Missing
    /\ persist = [w \in Writers |-> "idle"]
    /\ json_data = [w \in Writers |-> EmptyDict]
    /\ cookieOf = [w \in Writers |-> NoCookie]

\* the loop condition was not evaluated yet: no conjunct of it was read
NoCheck == [cookie |-> FALSE, markerRead |-> FALSE, marker |-> FALSE, inTime |-> FALSE]

\* the flow is about to open its session
\* none of the functions around the solver is being called
NotCalled ==
    /\ stampRun = None
    /\ parseRun = None
    /\ solverCall = None
    /\ fetchRequest = None
    /\ lightpanda = None
    /\ sanitizeRun = None

\* a session before its first step
AtEntry ==
    /\ mode = MainMode(cdp_url)
    /\ launchArgs = { }
    /\ proxyInjected = FALSE
    /\ connectedTo = None
    /\ commands = { }
    /\ pc = "aenter"
    /\ driver = None
    /\ scriptUA = BrowserUserAgent
    /\ wireUA = BrowserUserAgent
    /\ wireMeta = BrowserMetadata
    /\ fed = None
    /\ now = 0
    /\ start_timestamp = 0
    /\ current_cookies = << >>
    /\ all_cookies = << >>
    /\ clearance_cookie = NoCookie
    /\ challenge_platform = None
    /\ outcome = None
    /\ log = << >>
    /\ store = << >>
    /\ result = NoResult
    /\ firstSnapshot = << >>
    /\ firstMarkers = { }
    /\ snapshotTaken = FALSE
    /\ solveEntered = FALSE
    /\ loopChecked = FALSE
    /\ contentRead = FALSE
    /\ metaApplied = FALSE
    /\ clicks = 0
    /\ loopExit = None
    /\ lastCheck = NoCheck
    /\ widgetView = None
    /\ faults = FALSE

Started ==
    /\ NotCalled
    /\ AtEntry

\* no session and no persisting run is under way: the state in which one of
\* the functions around the solver is called on its own
NoSession ==
    /\ caller = "main"
    /\ cdp_url = None
    /\ timeout = TicksPerSecond
    /\ proxy = None
    /\ http2 = TRUE
    /\ http3 = TRUE
    /\ user_agent = ChosenUserAgent
    /\ AtEntry
    /\ NotPersisting

\* the flows with the launch options at their defaults
Init ==
    /\ caller \in Callers
    /\ cdp_url \in CdpUrls(caller)
    /\ timeout \in Timeouts
    /\ proxy = None
    /\ http2 = TRUE
    /\ http3 = TRUE
    /\ user_agent = ChosenUserAgent
    /\ Started
    /\ NotPersisting

(***************************************************************************)
(* Exceptions                                                               *)
(***************************************************************************)
\* a plausible slip: the exception is passed on and the flow goes on to report
ExceptionSwallowed == None

\* what the caller makes of an exception that leaves the `async with` block:
\* main and run_solver catch Exception, solve_cloudflare_challenge lets it go
ExceptionOutcome == IF caller = "solve_cloudflare_challenge" THEN "Raised"
                    ELSE "InfrastructureError"

\* a plausible slip: the exception ends the flow without __aexit__
RaiseWithoutAExit ==
    /\ driver' = driver
    /\ outcome' = ExceptionOutcome
    /\ log' = Append(log, "error")
    /\ pc' = "done"
    /\ faults' = TRUE

\* an exception raised in the body of the `async with` block: __aexit__
\* stops the driver and the caller's handler ends the flow
RaiseInBody ==
    /\ driver' = "stopped"
    /\ outcome' = ExceptionOutcome
    /\ log' = Append(log, "error")
    /\ pc' = "done"
    /\ faults' = TRUE

\* the body is left by a return: __aexit__ runs next
Leave(how) ==
    /\ outcome' = how
    /\ pc' = "aexit"

(***************************************************************************)
(* Session setup and the steps before the polling loop                      *)
(***************************************************************************)
\* a plausible slip: the toggles are applied whatever the mode
LaunchArgumentsInAnyMode ==
    { "--user-agent" }
        \cup (IF ~http2 THEN { "--disable-http2" } ELSE { })
        \cup (IF ~http3 THEN { "--disable-quic" } ELSE { })

\* the config.add_argument calls of __aenter__: they are in the branch of the
\* standalone mode only
LaunchArguments ==
    IF StandaloneMode
    THEN { "--user-agent" }
            \cup (IF ~http2 THEN { "--disable-http2" } ELSE { })
            \cup (IF ~http3 THEN { "--disable-quic" } ELSE { })
    ELSE { }

\* SeleniumAuthenticatedProxy(self.proxy).enrich_chrome_options(config), in
\* the branch of the standalone mode only
ProxyInjection == StandaloneMode /\ proxy # None

\* urlparse(endpoint) on the endpoints of the model: scheme, hostname and
\* port, with "" and 0 for the parts urlparse leaves empty or None
UrlParse(endpoint) ==
    CASE endpoint = "ws://127.0.0.1:9222" ->
            [scheme |-> "ws", hostname |-> "127.0.0.1", port |-> 9222]
      [] endpoint = "ws://127.0.0.1" ->
            [scheme |-> "ws", hostname |-> "127.0.0.1", port |-> 0]
      [] OTHER -> [scheme |-> "", hostname |-> "", port |-> 0]

\* parse_cdp_target(endpoint) returns a target: it raises ValueError otherwise
ParseCdpTargetAccepts(endpoint) ==
    LET parsed == UrlParse(endpoint)
    IN  /\ parsed.scheme \in { "ws", "wss", "http", "https" }
        /\ parsed.hostname # ""
        /\ parsed.port # 0

\* what zendriver.Browser.connect can do with the endpoint: there is nothing
\* to connect to at an empty address
ConnectOutcomes ==
    IF cdp_url = "" THEN { "start_fails" } ELSE { "ok", "start_fails", "evaluate_fails" }

\* __aenter__: an exception raised in it ends the flow in the caller's
\* handler without __aexit__
AEnter ==
    /\ pc = "aenter"
    /\ launchArgs' = LaunchArguments
    /\ proxyInjected' = ProxyInjection
    /\ connectedTo' = IF StandaloneMode THEN None ELSE cdp_url
    /\ \E r \in IF StandaloneMode THEN { "ok", "start_fails" } ELSE ConnectOutcomes :
        /\ driver' = IF r = "start_fails"
                     THEN (IF StandaloneMode THEN "unstarted" ELSE None)
                     ELSE "open"
        /\ scriptUA' = IF r = "ok" THEN user_agent ELSE scriptUA
        /\ wireUA' = IF r = "ok" /\ StandaloneMode THEN user_agent ELSE wireUA
        /\ IF r = "ok"
           THEN /\ pc' = "get"
                /\ UNCHANGED <<outcome, log, faults>>
           ELSE /\ pc' = "done"
                /\ outcome' = ExceptionOutcome
                /\ log' = Append(log, "error")
                /\ faults' = TRUE
    /\ UNCHANGED <<options, wireMeta, fed, now, locals, output, history>>

\* what scripts of the page navigated to see as navigator.userAgent: the
\* --user-agent argument of a launched browser holds for every page; the
\* property __aenter__ defined in attach mode was defined on the page of that
\* moment, and the browser may or may not carry it over to the next page
ScriptUserAgentAfterGet ==
    IF StandaloneMode THEN { scriptUA } ELSE { scriptUA, BrowserUserAgent }

\* await solver.driver.get(url)
Navigate ==
    /\ pc = "get"
    /\ \E r \in { "ok", "TimeoutError", "error" } :
        CASE r = "ok" ->
                /\ pc' = "get_cookies"
                /\ scriptUA' \in ScriptUserAgentAfterGet
                /\ UNCHANGED <<driver, outcome, log, faults>>
          [] r = "TimeoutError" /\ caller = "main" ->
                /\ driver' = "stopped"
                /\ outcome' = "NavigationTimeout"
                /\ log' = Append(log, "error")
                /\ pc' = "done"
                /\ faults' = TRUE
                /\ UNCHANGED scriptUA
          [] OTHER -> RaiseInBody /\ UNCHANGED scriptUA
    /\ UNCHANGED <<config, wireUA, wireMeta, fed, now, locals, output, history>>

\* a plausible slip: the solve path is taken whatever the snapshot holds
SolveAlways(found) == TRUE

\* if clearance_cookie is None: the solve path is taken
SolveNeeded(found) == found = NoCookie

\* the first get_cookies and extract_clearance_cookie, and the branch on it
GetCookies ==
    /\ pc = "get_cookies"
    /\ \E r \in { "ok", "error" } :
        IF r = "error"
        THEN /\ RaiseInBody
             /\ UNCHANGED <<locals, history>>
        ELSE \E jar \in FlowJars :
             LET snapshot == FormatCookies(jar)
                 found    == ExtractClearanceCookie(snapshot)
             IN  /\ firstSnapshot' = jar
                 /\ UNCHANGED firstMarkers
                 /\ snapshotTaken' = TRUE
                 /\ clearance_cookie' = found
                 /\ IF caller = "run_solver"
                    THEN /\ current_cookies' = snapshot
                         /\ all_cookies' = IF SolveNeeded(found) THEN all_cookies
                                           ELSE snapshot
                    ELSE /\ all_cookies' = snapshot
                         /\ UNCHANGED current_cookies
                 /\ log' = IF ~SolveNeeded(found) /\ caller = "run_solver"
                           THEN Append(log, "already present") ELSE log
                 /\ pc' = IF SolveNeeded(found) THEN "set_user_agent_metadata"
                          ELSE IF caller = "run_solver" THEN "aexit"
                          ELSE "get_user_agent"
                 /\ UNCHANGED <<driver, outcome, faults, start_timestamp,
                                challenge_platform, user_agent, solveEntered,
                                loopChecked, contentRead, metaApplied, clicks,
                                loopExit, lastCheck, widgetView>>
    /\ UNCHANGED <<config, browser, now, output>>

\* cdp.network.set_user_agent_override(user_agent, user_agent_metadata=metadata)
\* as the browser applies it: the header and the metadata in one command
SetUserAgentOverride(ua) ==
    /\ wireUA' = ua
    /\ wireMeta' = UserAgentMetadata(ua)

\* await solver.set_user_agent_metadata(await solver.get_user_agent()):
\* get_user_agent is a round trip; feed_cdp is not awaited, it schedules the
\* command and returns
SetUserAgentMetadata ==
    /\ pc = "set_user_agent_metadata"
    /\ \E r \in { "ok", "error" } :
        IF r = "error" \/ NoMajorVersion(scriptUA)
        THEN /\ RaiseInBody
             /\ UNCHANGED <<fed, metaApplied>>
        ELSE /\ fed' = scriptUA
             /\ metaApplied' = TRUE
             /\ pc' = "detect_challenge"
             /\ UNCHANGED <<driver, outcome, log, faults>>
    /\ UNCHANGED <<config, scriptUA, wireUA, wireMeta, now, locals, output,
                   firstSnapshot, firstMarkers, snapshotTaken, solveEntered,
                   loopChecked, contentRead, clicks, loopExit, lastCheck, widgetView>>

\* the task feed_cdp scheduled runs when the flow next waits for the browser:
\* the command is sent and the browser applies it or answers with an error;
\* nothing awaits the task, so the flow does not see the error
FeedCdp ==
    /\ fed # None
    /\ \E r \in { "ok", "error" } :
        IF r = "ok" THEN SetUserAgentOverride(fed)
        ELSE UNCHANGED <<wireUA, wireMeta>>
    /\ fed' = None
    /\ UNCHANGED <<config, scriptUA, now, locals, control, output, history, faults>>

\* a plausible slip: the test on the platform inverted
NoChallengeInverted(platform) == platform # None

\* if challenge_platform is None: there is nothing to solve
NoChallengeDetected(platform) == platform = None

\* challenge_platform = await solver.detect_challenge(), and the branch on it
DetectChallengeStep ==
    /\ pc = "detect_challenge"
    /\ fed = None
    /\ \E r \in { "ok", "error" } :
        IF r = "error"
        THEN /\ RaiseInBody
             /\ UNCHANGED <<locals, contentRead, firstMarkers>>
        ELSE \E html \in Pages :
             LET platform == DetectChallenge(html)
             IN  /\ contentRead' = TRUE
                 /\ firstMarkers' = MarkersIn(html)
                 /\ challenge_platform' = platform
                 /\ IF ~NoChallengeDetected(platform)
                    THEN /\ pc' = "solve_challenge"
                         /\ log' = IF caller = "solve_cloudflare_challenge" THEN log
                                   ELSE Append(log, "solving")
                         /\ UNCHANGED <<outcome, all_cookies>>
                    ELSE /\ log' = Append(log, "no challenge")
                         /\ IF caller = "run_solver"
                            THEN /\ all_cookies' = current_cookies
                                 /\ pc' = "aexit"
                                 /\ UNCHANGED outcome
                            ELSE /\ Leave("NoChallenge")
                                 /\ UNCHANGED all_cookies
                 /\ UNCHANGED <<driver, faults, start_timestamp, current_cookies,
                                clearance_cookie, user_agent>>
    /\ UNCHANGED <<config, browser, now, output, firstSnapshot,
                   snapshotTaken, solveEntered, loopChecked, metaApplied, clicks, loopExit,
                   lastCheck, widgetView>>

(***************************************************************************)
(* solve_challenge                                                          *)
(***************************************************************************)
\* the durations a remote round trip can take
RoundTrip == 0..MaxRT

\* timedelta.seconds of a duration of td ticks
Seconds(td) == (td \div TicksPerSecond) % SecondsPerDay

\* a plausible slip: <= for <
DeadlineNotReachedLate(elapsed) == Seconds(elapsed) * TicksPerSecond <= timeout

\* (datetime.now() - start_timestamp).seconds < self._timeout
DeadlineNotReached(elapsed) == Seconds(elapsed) * TicksPerSecond < timeout

\* solve_challenge returns to its caller
ReturnFromSolve(reason) ==
    /\ loopExit' = reason
    /\ pc' = "get_cookies_final"

\* an exception raised in solve_challenge: main passes on asyncio.TimeoutError
\* (and so does the loop body of pages/solver.py when `inBody`), everything
\* else leaves the `async with` block
RaiseInSolve(kind, inBody) ==
    IF kind = "TimeoutError" /\ caller = "main"
    THEN /\ ReturnFromSolve("TimeoutError")
         /\ faults' = TRUE
         /\ UNCHANGED <<driver, outcome, log>>
    ELSE IF kind = "TimeoutError" /\ caller = "solve_cloudflare_challenge" /\ inBody
    THEN /\ pc' = "loop_get_cookies"
         /\ faults' = TRUE
         /\ UNCHANGED <<driver, outcome, log, loopExit>>
    ELSE /\ RaiseInBody
         /\ UNCHANGED loopExit

\* solve_challenge is called: start_timestamp = datetime.now()
SolveChallenge ==
    /\ pc = "solve_challenge"
    /\ start_timestamp' = now
    /\ solveEntered' = TRUE
    /\ pc' = "loop_get_cookies"
    /\ UNCHANGED <<config, browser, now, current_cookies, all_cookies,
                   clearance_cookie, challenge_platform, user_agent, driver, outcome,
                   log, output, firstSnapshot, firstMarkers, snapshotTaken, loopChecked,
                   contentRead,
                   metaApplied, clicks, loopExit, lastCheck, widgetView, faults>>

\* the loop condition, first conjunct:
\* self.extract_clearance_cookie(await self.get_cookies()) is None
LoopGetCookies ==
    /\ pc = "loop_get_cookies"
    /\ widgetView' = None
    /\ \E d \in RoundTrip, r \in { "ok", "error" } :
        /\ now' = now + d
        /\ loopChecked' = TRUE
        /\ IF r = "error"
           THEN /\ RaiseInSolve("error", FALSE)
                /\ UNCHANGED lastCheck
           ELSE /\ \E jar \in FlowJars :
                   /\ lastCheck' = [NoCheck EXCEPT !.cookie = HasClearance(jar)]
                   /\ IF ExtractClearanceCookie(FormatCookies(jar)) # NoCookie
                      THEN ReturnFromSolve("cookie")
                      ELSE /\ pc' = "loop_detect_challenge"
                           /\ UNCHANGED loopExit
                /\ UNCHANGED <<driver, outcome, log, faults>>
    /\ UNCHANGED <<config, browser, locals, output, firstSnapshot, firstMarkers,
                   snapshotTaken, solveEntered, contentRead, metaApplied, clicks>>

\* the loop condition, second and third conjunct:
\* await self.detect_challenge() is not None and the deadline test
LoopDetectChallenge ==
    /\ pc = "loop_detect_challenge"
    /\ \E d \in RoundTrip, r \in { "ok", "error" } :
        /\ now' = now + d
        /\ IF r = "error"
           THEN /\ RaiseInSolve("error", FALSE)
                /\ UNCHANGED <<contentRead, lastCheck>>
           ELSE /\ contentRead' = TRUE
                /\ \E html \in Pages :
                   /\ lastCheck' =
                        [lastCheck EXCEPT
                            !.markerRead = TRUE,
                            !.marker = (MarkersIn(html) # { }),
                            !.inTime = /\ MarkersIn(html) # { }
                                       /\ DeadlineNotReached(now' - start_timestamp)]
                   /\ IF DetectChallenge(html) = None
                      THEN ReturnFromSolve("no marker")
                      ELSE IF ~DeadlineNotReached(now' - start_timestamp)
                      THEN ReturnFromSolve("deadline")
                      ELSE /\ pc' = "find"
                           /\ UNCHANGED loopExit
                /\ UNCHANGED <<driver, outcome, log, faults>>
    /\ UNCHANGED <<config, browser, locals, output, firstSnapshot, firstMarkers,
                   snapshotTaken, solveEntered, loopChecked, metaApplied, clicks,
                   widgetView>>

\* what find("input") and the look at its parent's first shadow root can show
WidgetViews ==
    { "no shadow root",     \* parent is None or has no shadow_roots
      "no child",           \* challenge.children[0] raises IndexError
      "not an element",     \* children[0] is no Element
      "no style",           \* challenge.attrs["style"] raises KeyError
      "hidden",             \* "display: none;" in the style
      "visible" }

\* a plausible slip: the style of the widget is not looked at
AfterLookupIgnoringStyle(view) ==
    CASE view = "no shadow root"          -> "sleep_debounce"
      [] view \in { "visible", "hidden" } -> "sleep_settle"
      [] OTHER                            -> "loop_get_cookies"

\* where the body goes after the tests on the widget: the debounce sleep
\* without a shadow root, the settle wait for an Element whose style does not
\* hold "display: none;", the loop condition otherwise
AfterLookup(view) ==
    CASE view = "no shadow root" -> "sleep_debounce"
      [] view = "visible"        -> "sleep_settle"
      [] OTHER                   -> "loop_get_cookies"

\* widget_input = await self.driver.main_tab.find("input") and the tests on it
FindWidget ==
    /\ pc = "find"
    /\ \E d \in RoundTrip, view \in WidgetViews \cup { "TimeoutError", "error" } :
        /\ now' = now + d
        /\ widgetView' = view
        /\ CASE view = "TimeoutError" -> RaiseInSolve("TimeoutError", TRUE)
             [] view \in { "error", "no child", "no style" } ->
                    RaiseInSolve("error", TRUE)
             [] OTHER ->
                    /\ pc' = AfterLookup(view)
                    /\ UNCHANGED <<driver, outcome, log, faults, loopExit>>
    /\ UNCHANGED <<config, browser, locals, output, firstSnapshot, firstMarkers,
                   snapshotTaken, solveEntered, loopChecked, contentRead, metaApplied, clicks,
                   lastCheck>>

\* a plausible slip: no `continue` after the sleep, the body goes on
SleepDebounceAndGoOn ==
    /\ pc = "sleep_debounce"
    /\ now' = now + DebounceTicks
    /\ pc' = "sleep_settle"
    /\ UNCHANGED <<config, browser, locals, driver, outcome, log, output, history,
                   faults>>

\* await asyncio.sleep(0.25); continue
SleepDebounce ==
    /\ pc = "sleep_debounce"
    /\ now' = now + DebounceTicks
    /\ pc' = "loop_get_cookies"
    /\ UNCHANGED <<config, browser, locals, driver, outcome, log, output, history,
                   faults>>

\* a plausible slip: the deadline cuts the settle wait short
SleepSettleCutShort ==
    /\ pc = "sleep_settle"
    /\ now' = now + SettleTicks
    /\ IF DeadlineNotReached(now' - start_timestamp)
       THEN /\ pc' = "get_position"
            /\ UNCHANGED loopExit
       ELSE ReturnFromSolve("deadline")
    /\ UNCHANGED <<config, browser, locals, driver, outcome, log, output, firstSnapshot,
                   firstMarkers, snapshotTaken, solveEntered, loopChecked, contentRead,
                   metaApplied, clicks, lastCheck, widgetView, faults>>

\* await asyncio.sleep(1)
SleepSettle ==
    /\ pc = "sleep_settle"
    /\ now' = now + SettleTicks
    /\ pc' = "get_position"
    /\ UNCHANGED <<config, browser, locals, driver, outcome, log, output, history,
                   faults>>

\* a plausible slip: `pass` for `continue`, the click follows a failed
\* computation too
GetPositionThenClick ==
    /\ pc = "get_position"
    /\ \E d \in RoundTrip, r \in { "ok", "error" } :
        /\ now' = now + d
        /\ pc' = "mouse_click"
        /\ faults' = (faults \/ r = "error")
    /\ UNCHANGED <<config, browser, locals, driver, outcome, log, output, history>>

\* await challenge.get_position(); except Exception: continue
GetPosition ==
    /\ pc = "get_position"
    /\ \E d \in RoundTrip, r \in { "ok", "error" } :
        /\ now' = now + d
        /\ pc' = IF r = "ok" THEN "mouse_click" ELSE "loop_get_cookies"
        /\ faults' = (faults \/ r = "error")
    /\ UNCHANGED <<config, browser, locals, driver, outcome, log, output, history>>

\* await challenge.mouse_click()
MouseClick ==
    /\ pc = "mouse_click"
    /\ \E d \in RoundTrip, r \in { "ok", "error" } :
        /\ now' = now + d
        /\ IF r = "error"
           THEN /\ RaiseInSolve("error", TRUE)
                /\ UNCHANGED clicks
           ELSE /\ clicks' = IF clicks < MaxClicks THEN clicks + 1 ELSE clicks
                /\ pc' = "loop_get_cookies"
                /\ UNCHANGED <<driver, outcome, log, faults, loopExit>>
    /\ UNCHANGED <<config, browser, locals, output, firstSnapshot, firstMarkers,
                   snapshotTaken, solveEntered, loopChecked, contentRead, metaApplied,
                   lastCheck, widgetView>>

(***************************************************************************)
(* After the loop: the last snapshot, the session's end and the report      *)
(***************************************************************************)
\* all_cookies = await solver.get_cookies() after solve_challenge
GetCookiesFinal ==
    /\ pc = "get_cookies_final"
    /\ \E r \in { "ok", "error" } :
        IF r = "error"
        THEN /\ RaiseInBody
             /\ UNCHANGED locals
        ELSE /\ \E jar \in FlowJars : all_cookies' = FormatCookies(jar)
             /\ clearance_cookie' = IF caller = "run_solver" THEN clearance_cookie
                                    ELSE ExtractClearanceCookie(all_cookies')
             /\ pc' = IF caller = "run_solver" THEN "aexit" ELSE "get_user_agent"
             /\ UNCHANGED <<driver, outcome, log, faults, start_timestamp,
                            current_cookies, challenge_platform, user_agent>>
    /\ UNCHANGED <<config, browser, now, output, history>>

\* user_agent = await solver.get_user_agent(): main and
\* solve_cloudflare_challenge ask inside the `async with` block, run_solver
\* asks after it and passes on any exception
GetUserAgent ==
    /\ pc = "get_user_agent"
    /\ \E r \in { "ok", "error" } :
        IF r = "ok"
        THEN /\ user_agent' = scriptUA
             /\ pc' = IF caller = "run_solver" THEN "report" ELSE "aexit"
             /\ UNCHANGED <<driver, outcome, log, faults>>
        ELSE IF caller = "run_solver"
        THEN /\ pc' = "report"
             /\ faults' = TRUE
             /\ UNCHANGED <<driver, outcome, log, user_agent>>
        ELSE /\ RaiseInBody
             /\ UNCHANGED user_agent
    /\ UNCHANGED <<config, browser, now, start_timestamp, current_cookies,
                   all_cookies, clearance_cookie, challenge_platform, output, history>>

\* __aexit__: await self.driver.stop()
AExit ==
    /\ pc = "aexit"
    /\ driver' = IF driver # None THEN "stopped" ELSE driver
    /\ pc' = IF outcome # None THEN "done"
             ELSE IF caller = "run_solver" THEN "get_user_agent"
             ELSE "report"
    /\ UNCHANGED <<config, browser, now, locals, outcome, log, output, history, faults>>

\* a plausible slip: the proxy is recorded whatever the mode
ProxyInAnyMode == proxy

\* args.proxy if mode == "standalone" else None
ProxyOfMode == IF mode = "standalone" THEN proxy ELSE None

\* the record main appends under the cookie's domain
Record ==
    [domain |-> clearance_cookie.domain, cf_clearance |-> clearance_cookie.value,
     cookies |-> all_cookies, user_agent |-> user_agent, proxy |-> ProxyOfMode]

\* the proxy part of the command main logs for a tool: curl gets --proxy and
\* aria2 --all-proxy when args.proxy is not None and mode == "standalone",
\* wget never gets one
Command(tool) ==
    [name |-> tool,
     proxy |-> IF tool # "wget" /\ proxy # None THEN ProxyOfMode ELSE None]

\* the tools main can be asked a command for: --curl, --wget, --aria2
Tools == { "curl", "wget", "aria2" }

\* the commands asked for in a run: none of them or all of them
AskedTools == { { }, Tools }

\* what follows the `async with` block
Report ==
    /\ pc = "report"
    /\ pc' = "done"
    /\ LET found == IF caller = "run_solver" THEN ExtractClearanceCookie(all_cookies)
                    ELSE clearance_cookie
       IN  /\ outcome' = IF found # NoCookie THEN "Cleared"
                         ELSE IF caller = "run_solver" /\ challenge_platform = None
                         THEN "NoChallenge"
                         ELSE "NoClearance"
           /\ log' = IF found = NoCookie THEN Append(log, "no clearance")
                     ELSE IF caller = "main" THEN Append(log, "cookie")
                     ELSE log
           /\ result' = IF found = NoCookie /\ caller # "run_solver" THEN NoResult
                        ELSE [clearance |-> found, cookies |-> all_cookies,
                              user_agent |-> user_agent]
           /\ \E asked \in AskedTools :
                commands' = IF caller = "main" /\ found # NoCookie
                            THEN { Command(tool) : tool \in asked }
                            ELSE commands
           /\ \E withFile \in BOOLEAN :
                store' = IF caller = "main" /\ found # NoCookie /\ withFile
                         THEN Append(store, Record)
                         ELSE store
    /\ UNCHANGED <<config, browser, now, locals, driver, history, faults>>

Next ==
    \/ AEnter
    \/ Navigate
    \/ GetCookies
    \/ SetUserAgentMetadata
    \/ FeedCdp
    \/ DetectChallengeStep
    \/ SolveChallenge
    \/ LoopGetCookies
    \/ LoopDetectChallenge
    \/ FindWidget
    \/ SleepDebounce
    \/ SleepSettle
    \/ GetPosition
    \/ MouseClick
    \/ GetCookiesFinal
    \/ GetUserAgent
    \/ AExit
    \/ Report

Spec == Init /\ [][Next]_vars


\* time passes: a round trip that goes on for ever takes some time at last,
\* and every step the flow can take is taken
Fairness == WF_vars(Next) /\ SF_vars(Next /\ now' > now)

FairSpec == Spec /\ Fairness

(***************************************************************************)
(* main under every combination of its launch options                      *)
(***************************************************************************)
\* --cdp-url: absent, empty, an address without a port, or an endpoint
ConfigCdpUrls == { None, "", "ws://127.0.0.1", "ws://127.0.0.1:9222" }

\* --proxy: absent or a proxy's address
Proxies == { None, "http://127.0.0.1:8080" }

\* main with any --cdp-url, --proxy, --disable-http2 and --disable-http3, and
\* a deadline of one second
ConfigInit ==
    /\ caller = "main"
    /\ cdp_url \in ConfigCdpUrls
    /\ timeout = TicksPerSecond
    /\ proxy \in Proxies
    /\ http2 \in BOOLEAN
    /\ http3 \in BOOLEAN
    /\ user_agent = ChosenUserAgent
    /\ Started
    /\ NotPersisting

ConfigSpec == ConfigInit /\ [][Next]_vars

(***************************************************************************)
(* The flows that build their own metadata, under every user agent          *)
(***************************************************************************)
\* main (--user-agent) and solve_cloudflare_challenge of src/pages/solver.py,
\* each with a launched browser and a deadline of one second
MetadataInit ==
    /\ caller \in { "main", "solve_cloudflare_challenge" }
    /\ cdp_url = None
    /\ timeout = TicksPerSecond
    /\ proxy = None
    /\ http2 = TRUE
    /\ http3 = TRUE
    /\ user_agent \in UserAgents
    /\ Started
    /\ NotPersisting

MetadataSpec == MetadataInit /\ [][Next]_vars

(***************************************************************************)
(* Persisting the result: lines 553-580 of main, for two runs that were      *)
(* given the same --file. Each run has left its session with a clearance     *)
(* cookie; the steps of a run are its accesses to the file, and the runs     *)
(* are separate processes, so the steps interleave freely.                   *)
(***************************************************************************)
\* timedelta(days=365).total_seconds()
YearSeconds == 365 * SecondsPerDay

\* the dict main appends for a clearance cookie; the runs were given the same
\* options, and the cookies of a run are its clearance cookie
Entry(cookie) ==
    [unix_timestamp |-> cookie.expires - YearSeconds,
     cf_clearance |-> cookie.value,
     cookies |-> FormatCookies(<<cookie>>),
     user_agent |-> user_agent,
     proxy |-> ProxyOfMode]

\* a plausible slip: the list of the domain is assigned, not appended to
SetDefaultAssign(data, domain, entry) ==
    [data EXCEPT ![domain] = <<entry>>]

\* json_data.setdefault(domain, []).append(entry)
SetDefaultAppend(data, domain, entry) ==
    [data EXCEPT ![domain] = Append(@, entry)]

\* a plausible slip: only the missing file is tolerated
ToleratedOnlyMissing(f) == f.kind = "missing"

\* except (FileNotFoundError, json.JSONDecodeError)
Tolerated(f) == f.kind \in { "missing", "corrupt" }

\* the session variables, which the persisting runs are past
session == <<caller, cdp_url, timeout, proxy, http2, http3, mode, launch,
             browser, now, locals, control, history, output, faults,
             components>>

\* the try statement of lines 558-562: open and json.load, and the empty
\* structure when either raised a tolerated exception; any other exception
\* leaves main
ReadFile(w) ==
    /\ persist[w] = "read"
    /\ IF file.kind = "json"
       THEN /\ json_data' = [json_data EXCEPT ![w] = file.data]
            /\ persist' = [persist EXCEPT ![w] = "append"]
       ELSE IF Tolerated(file)
       THEN /\ json_data' = [json_data EXCEPT ![w] = EmptyDict]
            /\ persist' = [persist EXCEPT ![w] = "append"]
       ELSE /\ persist' = [persist EXCEPT ![w] = "failed"]
            /\ UNCHANGED json_data
    /\ UNCHANGED <<file, fileAtStart, cookieOf, session>>

\* lines 564-577: the record is appended to the run's own json_data
AppendRecord(w) ==
    /\ persist[w] = "append"
    /\ json_data' = [json_data EXCEPT
            ![w] = SetDefaultAppend(@, cookieOf[w].domain, Entry(cookieOf[w]))]
    /\ persist' = [persist EXCEPT ![w] = "open"]
    /\ UNCHANGED <<file, fileAtStart, cookieOf, session>>

\* open(args.file, "w") of line 579 empties the file
OpenForWrite(w) ==
    /\ persist[w] = "open"
    /\ file' = Corrupt
    /\ persist' = [persist EXCEPT ![w] = "dump"]
    /\ UNCHANGED <<fileAtStart, json_data, cookieOf, session>>

\* json.dump of line 580 and the close of the file: the text of the run that
\* closes last is what the file holds
Dump(w) ==
    /\ persist[w] = "dump"
    /\ file' = Json(json_data[w])
    /\ persist' = [persist EXCEPT ![w] = "done"]
    /\ UNCHANGED <<fileAtStart, json_data, cookieOf, session>>

StoreNext ==
    \/ \E w \in Writers : ReadFile(w)
    \/ \E w \in Writers : AppendRecord(w)
    \/ \E w \in Writers : OpenForWrite(w)
    \/ \E w \in Writers : Dump(w)

\* clearance cookies of earlier runs
EarlierA == [ClearanceA EXCEPT !.value = "old1", !.expires = 5]
EarlierB == [ClearanceA EXCEPT !.value = "old2", !.expires = 6]

\* the lists a file holds under a domain before the runs: none, one or two
\* records
StoredLists == { << >>, <<Entry(EarlierA)>>, <<Entry(EarlierA), Entry(EarlierB)>> }

\* the files the runs find: none, one that is not JSON, or one that holds
\* lists of records under its domains
Files == { Missing, Corrupt } \cup { Json(data) : data \in [Domains -> StoredLists] }

\* two runs of main with --file and the default options, each past its
\* session with a clearance cookie, at line 553
StoreInit ==
    /\ caller = "main"
    /\ cdp_url = None
    /\ timeout = TicksPerSecond
    /\ proxy = None
    /\ http2 = TRUE
    /\ http3 = TRUE
    /\ user_agent = ChosenUserAgent
    /\ Started
    /\ file \in Files
    /\ fileAtStart = file
    /\ persist = [w \in Writers |-> "read"]
    /\ json_data = [w \in Writers |-> EmptyDict]
    /\ cookieOf \in [Writers -> { ClearanceA, ClearanceB }]

StoreSpec == StoreInit /\ [][StoreNext]_vars

(***************************************************************************)
(* extract_clearance_cookie on its own, over every short list of cookies    *)
(***************************************************************************)
\* the cookies of the lists
SomeCookies ==
    { SessionCookie, ClearanceA, ClearanceB, UpperCaseCookie, LongerNameCookie }

\* the lists of at most n of them
RECURSIVE ListsUpTo(_)
ListsUpTo(n) ==
    IF n = 0 THEN { << >> }
    ELSE ListsUpTo(n - 1)
            \cup { Append(l, c) : l \in { k \in ListsUpTo(n - 1) : Len(k) = n - 1 },
                                  c \in SomeCookies }

\* clearance_cookie = solver.extract_clearance_cookie(all_cookies): the
\* function reads the list and assigns nothing to it
Extract ==
    /\ pc = "extract_clearance_cookie"
    /\ clearance_cookie' = ExtractClearanceCookie(all_cookies)
    /\ pc' = "extracted"
    /\ UNCHANGED <<config, browser, now, start_timestamp, current_cookies,
                   all_cookies, challenge_platform, user_agent, driver, outcome,
                   log, output, history, faults>>

ExtractNext == Extract

\* a list of formatted cookies is about to be handed to the function
ExtractInit ==
    /\ caller = "main"
    /\ cdp_url = None
    /\ timeout = TicksPerSecond
    /\ proxy = None
    /\ http2 = TRUE
    /\ http3 = TRUE
    /\ mode = MainMode(cdp_url)
    /\ launchArgs = { }
    /\ proxyInjected = FALSE
    /\ connectedTo = None
    /\ NotPersisting
    /\ pc = "extract_clearance_cookie"
    /\ driver = "open"
    /\ scriptUA = BrowserUserAgent
    /\ wireUA = BrowserUserAgent
    /\ wireMeta = BrowserMetadata
    /\ fed = None
    /\ now = 0
    /\ start_timestamp = 0
    /\ current_cookies = << >>
    /\ all_cookies \in { FormatCookies(l) : l \in ListsUpTo(MaxCookies) }
    /\ clearance_cookie = NoCookie
    /\ challenge_platform = None
    /\ user_agent = ChosenUserAgent
    /\ outcome = None
    /\ log = << >>
    /\ store = << >>
    /\ result = NoResult
    /\ commands = { }
    /\ firstSnapshot = << >>
    /\ firstMarkers = { }
    /\ snapshotTaken = FALSE
    /\ solveEntered = FALSE
    /\ loopChecked = FALSE
    /\ contentRead = FALSE
    /\ metaApplied = FALSE
    /\ clicks = 0
    /\ loopExit = None
    /\ lastCheck = NoCheck
    /\ widgetView = None
    /\ faults = FALSE
    /\ NotCalled

ExtractSpec == ExtractInit /\ [][ExtractNext]_vars

(***************************************************************************)
(* Properties                                                               *)
(***************************************************************************)
\* the first of them
FirstClearance(cookies) ==
    cookies[CHOOSE i \in 1..Len(cookies) :
                /\ cookies[i].name = "cf_clearance"
                /\ \A j \in 1..(i - 1) : cookies[j].name # "cf_clearance"]

\* the first snapshot after navigation held a clearance cookie
ClearedAtEntry == snapshotTaken /\ HasClearance(firstSnapshot)

\* the outcomes of a flow that a raising remote call ended
Failed == outcome \in { "InfrastructureError", "Raised" }

\* C1: when the first cookie snapshot after navigation holds a cf_clearance
\* cookie, solve_challenge is never entered and no click is dispatched, in
\* either mode and for every timeout, and the flow ends Cleared (unless a
\* remote call raised and ended it as a failure).
C1_ClearedWithoutSolving ==
    ClearedAtEntry =>
        /\ ~solveEntered
        /\ ~loopChecked
        /\ clicks = 0
        /\ pc = "done" => (outcome = "Cleared" \/ Failed)
        /\ pc = "done" /\ ~faults => outcome = "Cleared"

C1_Witness ==
    /\ pc = "done"
    /\ ClearedAtEntry
    /\ outcome = "Cleared"
    /\ cdp_url # None
    /\ ~solveEntered

\* C2: when the jar holds a clearance cookie at entry, the cookie the result
\* reports is that cookie of the first snapshot, with its value, domain and
\* expiry, and get_content is never called in the run.
C2_ReportsCookieOfFirstSnapshot ==
    ClearedAtEntry =>
        /\ ~contentRead
        /\ outcome = "Cleared" =>
              /\ result.clearance.value = FirstClearance(firstSnapshot).value
              /\ result.clearance.domain = FirstClearance(firstSnapshot).domain
              /\ result.clearance.expires = FirstClearance(firstSnapshot).expires
        /\ \A i \in 1..Len(store) :
              /\ store[i].cf_clearance = FirstClearance(firstSnapshot).value
              /\ store[i].domain = FirstClearance(firstSnapshot).domain

C2_Witness ==
    /\ pc = "done"
    /\ outcome = "Cleared"
    /\ firstSnapshot = <<ClearanceB, ClearanceA>>
    /\ result.clearance.value = "xyz"
    /\ Len(store) = 1
    /\ ~contentRead

\* C3 as stated: detect_challenge returns a platform if and only if exactly
\* one of the three markers is in the markup.
C3_PlatformIffExactlyOneMarker ==
    contentRead => (challenge_platform # None <=> Cardinality(firstMarkers) = 1)

\* C3, amended: detect_challenge returns a platform if and only if at least
\* one of the three markers is in the markup, and none when no marker is.
C3_PlatformIffSomeMarker ==
    contentRead => (challenge_platform # None <=> firstMarkers # { })

C3_Witness ==
    /\ contentRead
    /\ Cardinality(firstMarkers) = 2
    /\ challenge_platform # None

\* the earliest platform of a set in the order ScriptOnly, Managed, Interactive
Earliest(platforms) ==
    IF "JAVASCRIPT" \in platforms THEN "JAVASCRIPT"
    ELSE IF "MANAGED" \in platforms THEN "MANAGED"
    ELSE IF "INTERACTIVE" \in platforms THEN "INTERACTIVE"
    ELSE None

\* what a write or an input action on the browser changes
written == <<scriptUA, wireUA, wireMeta, fed, clicks, store>>

\* C4: detect_challenge returns the earliest platform, in the order ScriptOnly,
\* Managed, Interactive, whose marker is in the markup, wherever the markers
\* stand in the markup; and a call of it writes nothing to the browser: it
\* changes no user agent channel and dispatches no click.
C4_EarliestPlatformNoWrite ==
    /\ [](contentRead => challenge_platform = Earliest(firstMarkers))
    /\ [][(DetectChallengeStep \/ LoopDetectChallenge) => UNCHANGED written]_vars

C4_Witness ==
    /\ contentRead
    /\ firstMarkers = { "MANAGED", "INTERACTIVE" }
    /\ challenge_platform = "MANAGED"

\* the first snapshot held no clearance cookie and the markup no marker
Unchallenged == contentRead /\ ~HasClearance(firstSnapshot) /\ firstMarkers = { }

\* C5: with no clearance cookie in the first snapshot and no marker in the
\* markup, the loop is never entered (no call of solve_challenge, no
\* evaluation of its condition), no click is dispatched, nothing is written to
\* the cookie store, and the flow ends NoChallenge (unless a remote call raised).
C5_NoChallengeWithoutPolling ==
    Unchallenged =>
        /\ ~solveEntered
        /\ ~loopChecked
        /\ clicks = 0
        /\ store = << >>
        /\ pc = "done" => (outcome = "NoChallenge" \/ Failed)
        /\ pc = "done" /\ ~faults => outcome = "NoChallenge"

C5_Witness ==
    /\ pc = "done"
    /\ Unchallenged
    /\ outcome = "NoChallenge"
    /\ caller = "run_solver"

\* the first snapshot held no clearance cookie and the markup the Managed
\* marker (and not the marker that is looked for before it)
ManagedChallenge ==
    /\ contentRead
    /\ ~HasClearance(firstSnapshot)
    /\ "MANAGED" \in firstMarkers
    /\ "JAVASCRIPT" \notin firstMarkers

Elapsed == now - start_timestamp

\* a timeout rounded up to whole seconds: the deadline test compares the whole
\* seconds of the elapsed time
WholeSeconds(t) == ((t + TicksPerSecond - 1) \div TicksPerSecond) * TicksPerSecond

\* the longest a loop iteration and the check after it take: the settle wait
\* of one second and five round trips (find, get_position, mouse_click, and
\* get_cookies and get_content of the next check)
IterationTicks == TicksPerSecond + 5 * MaxRT

\* the deadline is one second and solve_challenge returned because of it
TimedOutAfterOneSecond == timeout = TicksPerSecond /\ loopExit = "deadline"

C9_SessionReleased == pc = "done" => driver # "open"

\* C10: solve_challenge is entered and a click is dispatched only after
\* set_user_agent_metadata fed its override, and no click is reached with
\* only one of the two channels set: at every click the wire-level user agent
\* and its metadata are those of the script-visible user agent.
C10_ChannelsAlignedBeforeInteraction ==
    /\ solveEntered \/ clicks > 0 => metaApplied
    /\ pc = "mouse_click" \/ clicks > 0 =>
          /\ wireUA = scriptUA
          /\ wireMeta = UserAgentMetadata(scriptUA)

\* C11: a session in attach mode (an endpoint was given) applies none of the
\* launch settings, whatever proxy, http2 and http3 were supplied with the
\* endpoint: no --disable-http2 or --disable-quic argument, no proxy
\* injection; and the record written and the commands logged in such a run
\* carry no proxy.
C11_AttachModeAppliesNoLaunchSetting ==
    ~StandaloneMode =>
        /\ launchArgs = { }
        /\ ~proxyInjected
        /\ \A i \in 1..Len(store) : store[i].proxy = None
        /\ \A c \in commands : c.proxy = None

C11_Witness ==
    /\ pc = "done"
    /\ cdp_url = "ws://127.0.0.1:9222"
    /\ proxy # None /\ ~http2 /\ ~http3
    /\ Len(store) = 1
    /\ \E c \in commands : c.name = "curl"

\* the entries of both lists of a metadata
Entries(metadata) ==
    { metadata.brands[i] : i \in 1..Len(metadata.brands) }
        \cup { metadata.fullVersionList[i] : i \in 1..Len(metadata.fullVersionList) }

\* the browser sends the metadata an override gave it
Overridden == wireMeta # BrowserMetadata

\* C12 as stated: every entry of the metadata set_user_agent_metadata
\* produced, in the brands list and in the full version list, carries the
\* major version parsed from the user agent.
C12_EveryEntryCarriesMajorVersion ==
    Overridden =>
        \A e \in Entries(wireMeta) : e.version = MajorVersion(wireMeta.of)

\* C12, amended: every Chromium and Google Chrome entry of the metadata, in
\* the brands list and in the full version list, carries the major version
\* parsed from the user agent; the first entry of both lists, Not)A;Brand,
\* carries the version 8 whatever the user agent.
C12_VersionedEntriesCarryMajorVersion ==
    Overridden =>
        /\ \A e \in Entries(wireMeta) :
              /\ e.brand \in { "Chromium", "Google Chrome" }
                    => e.version = MajorVersion(wireMeta.of)
              /\ e.brand \notin { "Chromium", "Google Chrome" }
                    => e.brand = "Not)A;Brand" /\ e.version = 8
        /\ wireMeta.brands[1].brand = "Not)A;Brand"
        /\ wireMeta.fullVersionList[1].brand = "Not)A;Brand"
        /\ Len(wireMeta.fullVersionList) > 1

C12_Witness ==
    /\ Overridden
    /\ caller = "solve_cloudflare_challenge"
    /\ wireMeta.of = ChosenUserAgent
    /\ Len(wireMeta.fullVersionList) = 3
    /\ wireMeta.fullVersionList[3].version = 120

\* where the flow is while solve_challenge runs its loop
InLoop ==
    pc \in { "loop_get_cookies", "loop_detect_challenge", "find", "sleep_debounce",
             "sleep_settle", "get_position", "mouse_click" }

\* C13: no step of the widget phase of the loop (the lookup of the anchor
\* element and the tests on its shadow root, its first child and its style;
\* the computation of the bounding box) ends the loop: whatever the lookup
\* gives, failures included, the flow is in the loop after it.
C13_LookupFailuresRetried ==
    [][(pc \in { "find", "get_position" }) => InLoop']_vars

\* the three situations of a flow that has ended without a clearance cookie
NotChallenged == Unchallenged
ChallengedUnsolved ==
    /\ contentRead /\ challenge_platform # None
    /\ solveEntered
    /\ result.clearance = NoCookie
InfrastructureFailure == faults /\ ~snapshotTaken

\* the reports of a failure to launch, to connect or to navigate
FailureReports == { "InfrastructureError", "Raised", "NavigationTimeout" }

\* C14: each of the three situations has a report of its own: a flow that was
\* not challenged ends NoChallenge, one that was challenged and obtained no
\* clearance cookie ends NoClearance, one whose launch, connection or
\* navigation failed ends with a failure report, so that no two situations
\* share a report.
C14_SituationsToldApart ==
    pc = "done" =>
        /\ NotChallenged /\ ~faults => outcome = "NoChallenge"
        /\ ChallengedUnsolved => outcome = "NoClearance"
        /\ InfrastructureFailure => outcome \in FailureReports

\* the flow has ended after solve_challenge returned, with no clearance
\* cookie in the last snapshot and no remote call having raised
EndedUnsolved ==
    /\ pc = "done"
    /\ ~faults
    /\ loopExit # None
    /\ ~HasClearance(all_cookies)

\* C15: a flow whose loop ended at the deadline without a clearance cookie
\* reports TimedOut, and not what a flow reports whose loop ended because
\* the marker was gone without a clearance cookie (NoClearance).
C15_TimedOutReportedApart ==
    EndedUnsolved =>
        /\ loopExit = "deadline" => outcome = "TimedOut"
        /\ loopExit = "no marker" => outcome = "NoClearance"

(***************************************************************************)
(* C16: an endpoint that is not of the form scheme://host:port is rejected  *)
(* before a connection to a browser is attempted: whenever the session has  *)
(* handed an endpoint to Browser.connect, parse_cdp_target accepts it.       *)
(* The session hands over whatever --cdp-url holds.                          *)
(***************************************************************************)
C16_ConnectOnlyToWellFormedEndpoint ==
    connectedTo # None => ParseCdpTargetAccepts(connectedTo)

(***************************************************************************)
(* C17: the parts of main that branch on the mode agree on it for every     *)
(* endpoint value: once the session is set up, main's `mode` says            *)
(* "standalone" exactly when the session took the launch branch and handed   *)
(* no endpoint to Browser.connect. With --cdp-url "" main's truth test says  *)
(* standalone while the session's `is None` test takes the attach branch.    *)
(***************************************************************************)
C17_ModeAgreesWithSession ==
    (caller = "main" /\ pc # "aenter") =>
        (mode = "standalone" <=> connectedTo = None)

(***************************************************************************)
(* The cookie store                                                         *)
(***************************************************************************)
\* the other persisting run
Other(w) == CHOOSE o \in Writers : o # w

\* run w has gone through its read-modify-write cycle, with or without
\* success, and the other run has not touched the file yet
PersistedAlone(w) ==
    /\ persist[w] \in { "done", "failed" }
    /\ persist[Other(w)] = "read"

(***************************************************************************)
(* C18: persisting appends exactly one record at the end of the list under  *)
(* the cookie's domain: when a run has persisted to a file of records with   *)
(* no other run in between, the list of its domain is one longer, begins     *)
(* with the records it had in their order and ends with the new record, and  *)
(* the list of every other domain is as it was.                              *)
(***************************************************************************)
C18_AppendsOneRecordKeepsTheRest ==
    \A w \in Writers :
        (PersistedAlone(w) /\ fileAtStart.kind = "json") =>
            LET domain == cookieOf[w].domain
                before == fileAtStart.data[domain]
                after  == file.data[domain]
            IN  /\ persist[w] = "done"
                /\ file.kind = "json"
                /\ Len(after) = Len(before) + 1
                /\ SubSeq(after, 1, Len(before)) = before
                /\ after[Len(after)] = Entry(cookieOf[w])
                /\ \A d \in Domains \ { domain } :
                        file.data[d] = fileAtStart.data[d]

\* a run has persisted alone to a file that held two records under its
\* domain and records under the other domains
C18_Witness ==
    \E w \in Writers :
        /\ PersistedAlone(w)
        /\ persist[w] = "done"
        /\ fileAtStart.kind = "json"
        /\ Len(fileAtStart.data[cookieOf[w].domain]) = 2
        /\ \A d \in Domains \ { cookieOf[w].domain } : fileAtStart.data[d] # << >>

C20_NoLostUpdate ==
    ( /\ \A w \in Writers : persist[w] = "done"
      /\ cookieOf[1].domain # cookieOf[2].domain ) =>
        /\ file.kind = "json"
        /\ \A w \in Writers :
                \E i \in DOMAIN file.data[cookieOf[w].domain] :
                    file.data[cookieOf[w].domain][i] = Entry(cookieOf[w])

(***************************************************************************)
(* C21: extract_clearance_cookie returns the first cookie of the list whose  *)
(* name is exactly cf_clearance: no cookie before it has that name, later    *)
(* ones and names of another case or with more letters do not count; it      *)
(* returns None when no cookie has that name; and the call leaves the list   *)
(* as it was.                                                                *)
(***************************************************************************)
C21_FirstExactNameWins ==
    /\ [](pc = "extracted" =>
            LET exact == { i \in DOMAIN all_cookies : all_cookies[i].name = "cf_clearance" }
            IN  IF exact = { } THEN clearance_cookie = NoCookie
                ELSE \E i \in exact :
                        /\ \A j \in exact : i <= j
                        /\ clearance_cookie = all_cookies[i])
    /\ [][Extract => all_cookies' = all_cookies]_vars

\* the function was given a cookie of a near name, then two clearance cookies
C21_Witness ==
    /\ pc = "extracted"
    /\ Len(all_cookies) = 3
    /\ all_cookies[1].name = "CF_CLEARANCE"
    /\ all_cookies[2] = ToJson(ClearanceB)
    /\ all_cookies[3] = ToJson(ClearanceA)
    /\ clearance_cookie = ToJson(ClearanceB)

\* nothing of the solve path has run and nothing was written
NothingBeyondNavigation ==
    /\ ~snapshotTaken
    /\ ~contentRead
    /\ ~solveEntered
    /\ ~loopChecked
    /\ clicks = 0
    /\ store = << >>
    /\ commands = { }

(***************************************************************************)
(* C22: a navigation that does not complete (it times out, or raises in any  *)
(* other way) ends the attempt as a failure with the browser session         *)
(* released and with no detection, no polling iteration and no store write;  *)
(* the navigation is reached from the session setup only, so it is never     *)
(* tried again, and an ended flow takes no further step.                     *)
(***************************************************************************)
C22_NavigationFailureEndsAttempt ==
    /\ [][(pc = "get" /\ pc' # "get_cookies") =>
            /\ pc' = "done"
            /\ outcome' \in FailureReports
            /\ driver' = "stopped"
            /\ NothingBeyondNavigation']_vars
    /\ [][pc' = "get" => pc = "aenter"]_vars
    /\ [][pc # "done"]_vars

\* main's navigation timed out
C22_Witness ==
    /\ pc = "done"
    /\ outcome = "NavigationTimeout"
    /\ driver = "stopped"
    /\ log = <<"error">>

\* the session holds no started or connected browser
NoBrowserHandle == driver \in { None, "unstarted" }

(***************************************************************************)
(* C23: when the launch of the browser or the connection to the endpoint     *)
(* fails in the session setup, the flow ends there as a failure: no          *)
(* navigation, detection or polling step runs and nothing is persisted. No   *)
(* step past the setup is ever taken without a browser handle.               *)
(***************************************************************************)
C23_SetupFailureAborts ==
    /\ [][(pc = "aenter" /\ pc' # "get") =>
            /\ pc' = "done"
            /\ Failed'
            /\ log' = <<"error">>
            /\ NothingBeyondNavigation']_vars
    /\ [](NoBrowserHandle => pc \in { "aenter", "done" })

\* the launch of a browser failed
C23_Witness ==
    /\ pc = "done"
    /\ cdp_url = None
    /\ driver = "unstarted"
    /\ Failed

\* the flow is in the body of the loop of solve_challenge
InLoopBody ==
    pc \in { "find", "sleep_debounce", "sleep_settle", "get_position", "mouse_click" }

\* the loop condition was true: no clearance cookie in the cookies read, a
\* marker in the markup read after them, and the deadline not reached
CheckPassed ==
    lastCheck = [cookie |-> FALSE, markerRead |-> TRUE, marker |-> TRUE, inTime |-> TRUE]

(***************************************************************************)
(* C24: every iteration of the loop of solve_challenge begins with a read of *)
(* the cookies and then of the markup; the body runs only when that check    *)
(* found no clearance cookie, a marker and the deadline not reached; the     *)
(* loop is left at the first check that finds a clearance cookie or no       *)
(* marker, and solve_challenge returns from a check only, with the reason    *)
(* the check found; a click that was dispatched leads back to the check.     *)
(***************************************************************************)
C24_LoopConditionRereadEachIteration ==
    /\ [][pc' = "find" => (pc = "loop_detect_challenge" /\ lastCheck'.markerRead)]_vars
    /\ [][pc' = "loop_detect_challenge" =>
            (pc = "loop_get_cookies" /\ ~lastCheck'.markerRead)]_vars
    /\ [](InLoopBody => CheckPassed)
    /\ [](InLoop => /\ ~lastCheck.cookie
                    /\ lastCheck.markerRead => (lastCheck.marker /\ lastCheck.inTime))
    /\ [](/\ loopExit = "cookie" => lastCheck.cookie
          /\ loopExit = "no marker" => (lastCheck.markerRead /\ ~lastCheck.marker)
          /\ loopExit = "deadline" => (lastCheck.marker /\ ~lastCheck.inTime))
    /\ [][pc = "mouse_click" =>
            (pc' = "loop_get_cookies" \/ (pc' = "done" /\ Failed'))]_vars

\* after a click the check found the marker again and the body runs again
C24_Witness ==
    /\ clicks > 0
    /\ pc = "find"
    /\ CheckPassed

(***************************************************************************)
(* C25: once the time elapsed since solve_challenge was entered has reached  *)
(* the timeout, the next evaluation of the loop condition ends the loop:     *)
(* the body is not entered from a check whose deadline test was made at or   *)
(* after the timeout. The test compares the whole seconds of the elapsed     *)
(* time (timedelta.seconds), so with a timeout of 1.5 s a check made after   *)
(* 1.5 s still enters the body.                                              *)
(***************************************************************************)
C25_CheckAfterTimeoutEndsLoop ==
    [][(pc = "loop_detect_challenge" /\ now' - start_timestamp >= timeout)
            => pc' # "find"]_vars

(***************************************************************************)
(* C26: in an iteration where the anchor element has no parent or the parent *)
(* has no shadow root, the solver sleeps one debounce interval of a quarter   *)
(* of a second and goes back to the loop check: no click is dispatched, no   *)
(* error is raised or reported, and nothing else changes.                    *)
(***************************************************************************)
C26_NoShadowRootSleepsAndRetries ==
    /\ [][pc' = "sleep_debounce" =>
            (pc = "find" /\ UNCHANGED <<clicks, faults, outcome, log, driver>>)]_vars
    /\ [][pc = "sleep_debounce" =>
            /\ pc' = "loop_get_cookies"
            /\ now' = now + DebounceTicks
            /\ 4 * DebounceTicks = TicksPerSecond
            /\ UNCHANGED <<clicks, faults, outcome, log, driver, loopExit>>]_vars

\* the lookup found no shadow root and the solver is about to sleep
C26_Witness ==
    /\ pc = "sleep_debounce"
    /\ CheckPassed
    /\ clicks = 0
    /\ ~faults

(***************************************************************************)
(* C27: no click is dispatched on a widget whose style holds                 *)
(* "display: none;": in the iteration that found it so, the lookup leads     *)
(* straight back to the loop check, with no settle wait (only the round trip *)
(* of the lookup has passed) and no click, and the flow is never at the      *)
(* settle wait, the bounding box or the click with a hidden widget.          *)
(***************************************************************************)
C27_HiddenWidgetIsNotClicked ==
    /\ [][widgetView' = "hidden" =>
            /\ pc = "find"
            /\ pc' = "loop_get_cookies"
            /\ now' - now <= MaxRT
            /\ UNCHANGED <<clicks, faults, outcome, log, driver, loopExit>>]_vars
    /\ [](widgetView = "hidden" => pc = "loop_get_cookies")
    /\ [](pc \in { "sleep_settle", "get_position", "mouse_click" } =>
            widgetView # "hidden")

\* the lookup found a hidden widget and the loop check is next
C27_Witness ==
    /\ widgetView = "hidden"
    /\ pc = "loop_get_cookies"
    /\ clicks = 0
    /\ ~faults

(***************************************************************************)
(* C28: a click is dispatched only after, in the same iteration and in this  *)
(* order, the lookup showed a visible widget, the settle wait of one second  *)
(* has passed and the bounding box was computed; when that computation       *)
(* fails the iteration ends without a click; and an iteration dispatches at  *)
(* most one click, after which the loop check is next.                       *)
(***************************************************************************)
C28_ClickAfterSettleAndPosition ==
    /\ [][pc' = "sleep_settle" => (pc = "find" /\ widgetView' = "visible")]_vars
    /\ [][pc' = "get_position" =>
            /\ pc = "sleep_settle"
            /\ now' = now + SettleTicks
            /\ SettleTicks = TicksPerSecond]_vars
    /\ [][pc' = "mouse_click" => (pc = "get_position" /\ faults' = faults)]_vars
    /\ [](pc \in { "sleep_settle", "get_position", "mouse_click" } =>
            (widgetView = "visible" /\ CheckPassed))
    /\ [][(pc = "get_position" /\ faults' # faults) =>
            (pc' = "loop_get_cookies" /\ clicks' = clicks)]_vars
    /\ [][clicks' # clicks =>
            /\ pc = "mouse_click"
            /\ pc' = "loop_get_cookies"
            /\ clicks' = clicks + 1]_vars

\* a click was dispatched and the loop check is next
C28_Witness ==
    /\ clicks = 1
    /\ pc = "loop_get_cookies"
    /\ widgetView = "visible"
    /\ now - start_timestamp >= SettleTicks

(***************************************************************************)
(* C29: the deadline is evaluated at the loop check only, once per           *)
(* iteration: solve_challenge returns by its deadline from a check only; an  *)
(* iteration that has begun runs on whatever the clock shows, its sleeps     *)
(* always complete, and the body is left for anything but the next step of   *)
(* the loop only when a remote call raised.                                  *)
(***************************************************************************)
C29_DeadlineOnlyAtLoopCheck ==
    /\ [][loopExit' = "deadline" =>
            (loopExit = "deadline" \/ pc = "loop_detect_challenge")]_vars
    /\ [][pc' = "find" => pc = "loop_detect_challenge"]_vars
    /\ [][pc = "sleep_debounce" => pc' = "loop_get_cookies"]_vars
    /\ [][pc = "sleep_settle" => pc' = "get_position"]_vars
    /\ [][(InLoopBody /\ ~InLoop') =>
            /\ faults'
            /\ (pc' = "done" /\ Failed') \/ loopExit' = "TimeoutError"
            /\ pc \in { "find", "mouse_click" }]_vars

\* the deadline passed during an iteration and the click of that iteration
\* is about to be dispatched
C29_Witness ==
    /\ pc = "mouse_click"
    /\ CheckPassed
    /\ ~DeadlineNotReached(now - start_timestamp)
    /\ ~faults

(***************************************************************************)
(* C30: a flow that detected a challenge, whose polling loop has ended and   *)
(* whose last cookie snapshot holds no clearance cookie, reports the failure *)
(* to obtain clearance (or the failure of a remote call that raised after    *)
(* the loop) and writes no record; and a record is in the store only when    *)
(* the last snapshot holds a clearance cookie: it is the one record of main, *)
(* with that cookie and that snapshot.                                       *)
(***************************************************************************)
C30_NoClearanceNoRecord ==
    /\ (pc = "done" /\ loopExit # None /\ ~HasClearance(all_cookies)) =>
            /\ (outcome = "NoClearance" /\ log[Len(log)] = "no clearance") \/ Failed
            /\ store = << >>
            /\ commands = { }
    /\ store # << >> =>
            /\ caller = "main"
            /\ outcome = "Cleared"
            /\ HasClearance(all_cookies)
            /\ Len(store) = 1
            /\ store[1].cookies = all_cookies
            /\ \E i \in DOMAIN all_cookies :
                    /\ all_cookies[i].name = "cf_clearance"
                    /\ store[1].cf_clearance = all_cookies[i].value
                    /\ store[1].domain = all_cookies[i].domain

\* main's loop ended because the marker was gone, and the last snapshot holds
\* no clearance cookie
C30_Witness ==
    /\ EndedUnsolved
    /\ caller = "main"
    /\ loopExit = "no marker"
    /\ outcome = "NoClearance"
    /\ store = << >>

(***************************************************************************)
(* C33: the deadline part of the loop condition is the test `elapsed time    *)
(* since loop entry < timeout`: the body is entered from a check only when   *)
(* the time elapsed at that check is less than the timeout, and              *)
(* solve_challenge returns by its deadline only when it is not. The code     *)
(* compares timedelta.seconds, the whole seconds of the elapsed time modulo  *)
(* one day.                                                                  *)
(***************************************************************************)
C33_DeadlineTestIsElapsedBelowTimeout ==
    /\ pc = "find" => Elapsed < timeout
    /\ loopExit = "deadline" => Elapsed >= timeout

(***************************************************************************)
(* C34: run_solver asks the browser nothing once the session is closed:      *)
(* whenever a flow is at a get_cookies or get_user_agent call, its browser   *)
(* is open. run_solver._solve asks for the user agent after the `async with` *)
(* block, when __aexit__ has stopped the browser.                            *)
(***************************************************************************)
C34_NoCallAfterSessionClosed ==
    pc \in { "get_cookies", "loop_get_cookies", "get_cookies_final", "get_user_agent" }
        => driver = "open"

\* a session and the persisting runs: no call of a function around the
\* solver touches them
program == <<caller, cdp_url, timeout, proxy, http2, http3, mode, persistence,
             launch, browser, now, locals, control, output, history, faults>>

(***************************************************************************)
(* The time stamp of a persisted record: main, lines 564-577, and          *)
(* solve_cloudflare_challenge of pages/solver.py, lines 366-378.  The      *)
(* expiry of a cookie is a float of seconds since the epoch; times are     *)
(* counted in ticks here, so an expiry may fall between two whole seconds. *)
(***************************************************************************)
\* timedelta(days=365).total_seconds(), in ticks
YearTicks == YearSeconds * TicksPerSecond

\* int() of a time: whole seconds, truncated toward zero
IntSeconds(ticks) ==
    IF ticks >= 0
        THEN ticks \div TicksPerSecond
        ELSE -((-ticks) \div TicksPerSecond)

\* datetime.fromtimestamp(t, tz=tz).isoformat(): the reading of a wall clock
\* of the zone, followed by the zone's offset from UTC (in seconds)
IsoFormat(ticks, tz) ==
    [wall |-> ticks + tz * TicksPerSecond, utcoffset |-> tz]

\* the zones of the machines main runs on: UTC and UTC+07:00
LocalTimezones == { 0, 7 * 3600 }

\* timezone.utc for the page, the zone of the machine for main
TimezoneOf(who, local) ==
    IF who = "main" THEN local ELSE 0

\* a plausible slip: the expiry is stored as it was observed
StampOfExpiry(expires, tz) ==
    [unix_timestamp |-> IntSeconds(expires),
     timestamp |-> IsoFormat(expires, tz)]

\* the two time fields of the record
Stamp(expires, tz) ==
    [unix_timestamp |-> IntSeconds(expires - YearTicks),
     timestamp |-> IsoFormat(expires - YearTicks, tz)]

\* the times of a solve: some ticks in the third year after the epoch
SolveTimes == { 2 * YearTicks + d : d \in 0 .. 3 }

\* the expiry the browser reported for the clearance cookie: -1 for a
\* session cookie, or a time after the solve, up to more than a year after
Expiries(solved) ==
    { -TicksPerSecond }
        \cup { solved + d : d \in { 1, TicksPerSecond, TicksPerSecond + 1,
                                   SecondsPerDay * TicksPerSecond,
                                   YearTicks - 1, YearTicks, YearTicks + 1,
                                   YearTicks + TicksPerSecond + 2 } }

\* lines 564-577 (366-378): the record's time fields are computed
StampRecord ==
    /\ stampRun.pc = "stamp"
    /\ stampRun' = [stampRun EXCEPT
                        !.pc = "stamped",
                        !.entry = Stamp(stampRun.expires,
                                        TimezoneOf(stampRun.who, stampRun.local))]
    /\ UNCHANGED <<program, parseRun, solverCall, fetchRequest,
                   lightpanda, sanitizeRun>>

StampNext == StampRecord

StampInit ==
    /\ NoSession
    /\ \E who \in { "main", "solve_cloudflare_challenge" },
          local \in LocalTimezones, solved \in SolveTimes :
          \E expires \in Expiries(solved) :
              stampRun = [who |-> who, local |-> local, solved |-> solved,
                          expires |-> expires, pc |-> "stamp",
                          entry |-> Stamp(0, 0)]
    /\ parseRun = None
    /\ solverCall = None
    /\ fetchRequest = None
    /\ lightpanda = None
    /\ sanitizeRun = None

StampSpec == StampInit /\ [][StampNext]_vars

\* the instant an ISO time stamp names, in ticks since the epoch
Instant(iso) == iso.wall - iso.utcoffset * TicksPerSecond

RecordStamped == stampRun.pc = "stamped"

(***************************************************************************)
(* C31: the time stamp of a persisted record names the instant 365 days    *)
(* (31,536,000 seconds) before the observed expiry of the clearance        *)
(* cookie, and its unix_timestamp is that instant in whole seconds; so for *)
(* a cookie that expires less than a year after the solve, both lie before *)
(* the time of the solve.                                                  *)
(***************************************************************************)
C31_StampIsExpiryMinusYear ==
    RecordStamped =>
        LET e == stampRun.entry
            shifted == stampRun.expires - YearTicks
        IN  /\ Instant(e.timestamp) = shifted
            /\ e.unix_timestamp = IntSeconds(shifted)
            /\ stampRun.expires - stampRun.solved < YearTicks
                => /\ Instant(e.timestamp) < stampRun.solved
                   /\ e.unix_timestamp * TicksPerSecond < stampRun.solved

\* a cookie that expires a day after the solve was stamped, by main on a
\* machine east of UTC
C31_Witness ==
    /\ RecordStamped
    /\ stampRun.who = "main"
    /\ stampRun.local # 0
    /\ stampRun.expires = stampRun.solved + SecondsPerDay * TicksPerSecond
    /\ Instant(stampRun.entry.timestamp) < stampRun.solved

(***************************************************************************)
(* parse_cdp_target, lightpanda_service.py lines 28-36.  An endpoint is    *)
(* the text scheme + ":" (when there is a scheme) + "//" (when slashes)    *)
(* + host + port, the port part being empty or a colon and what follows    *)
(* it; urlparse is computed on these parts as urllib computes it.          *)
(***************************************************************************)
SchemeTexts == { "", "ws", "WS", "wss", "http", "https", "ftp" }
HostTexts == { "", "127.0.0.1", "LocalHost" }
PortTexts == { "", ":", ":0", ":9222", ":09222", ":x", ":99999" }
Endpoints ==
    [scheme : SchemeTexts, slashes : BOOLEAN, host : HostTexts, port : PortTexts]

\* str.lower()
Lower(text) ==
    CASE text = "WS" -> "ws"
      [] text = "LocalHost" -> "localhost"
      [] OTHER -> text

\* int(port, 10) of the text after the colon; -1 where int() raises
PortNumber(text) ==
    CASE text = ":0" -> 0
      [] text = ":9222" -> 9222
      [] text = ":09222" -> 9222
      [] text = ":99999" -> 99999
      [] OTHER -> -1

\* urlparse(endpoint).scheme: the text before the first colon, in lower
\* case, when it starts with a letter and is made of scheme characters
ParsedScheme(e) ==
    IF e.scheme # ""
        THEN Lower(e.scheme)
        ELSE IF ~e.slashes /\ e.host = "LocalHost" /\ e.port # ""
                 THEN Lower(e.host)
                 ELSE ""

\* urlparse(endpoint).hostname: of the part after "//", None without it
ParsedHostname(e) ==
    IF e.slashes /\ e.host # "" THEN Lower(e.host) ELSE ""

\* urlparse(endpoint).port: None without digits after the colon, and
\* ValueError for a text that is no number or a number above 65535
ParsedPort(e) ==
    IF ~e.slashes \/ e.port \in { "", ":" }
        THEN [raised |-> FALSE, value |-> 0]
        ELSE IF PortNumber(e.port) < 0 \/ PortNumber(e.port) > 65535
                 THEN [raised |-> TRUE, value |-> 0]
                 ELSE [raised |-> FALSE, value |-> PortNumber(e.port)]

CdpSchemes == { "ws", "wss", "http", "https" }
NoTarget == [host |-> "", port |-> 0]

\* a plausible slip: the scheme is not looked at
ParseCdpTargetOfAnyScheme(e) ==
    IF ParsedHostname(e) # "" /\ ~ParsedPort(e).raised
            /\ ParsedPort(e).value # 0
        THEN [raised |-> None,
              target |-> [host |-> ParsedHostname(e),
                          port |-> ParsedPort(e).value]]
        ELSE [raised |-> "ValueError", target |-> NoTarget]

\* lines 28-36; `and` evaluates the port only for an accepted scheme and a
\* host, and a ValueError of the port property leaves the function as its
\* own ValueError does
ParseCdpTarget(e) ==
    IF ParsedScheme(e) \in CdpSchemes /\ ParsedHostname(e) # ""
        THEN IF ~ParsedPort(e).raised /\ ParsedPort(e).value # 0
                 THEN [raised |-> None,
                       target |-> [host |-> ParsedHostname(e),
                                   port |-> ParsedPort(e).value]]
                 ELSE [raised |-> "ValueError", target |-> NoTarget]
        ELSE [raised |-> "ValueError", target |-> NoTarget]

\* a call of parse_cdp_target
CallParseCdpTarget ==
    /\ parseRun.pc = "call"
    /\ parseRun' = [parseRun EXCEPT !.pc = "left",
                                    !.result = ParseCdpTarget(parseRun.endpoint)]
    /\ UNCHANGED <<program, stampRun, solverCall, fetchRequest,
                   lightpanda, sanitizeRun>>

ParseNext == CallParseCdpTarget

ParseInit ==
    /\ NoSession
    /\ \E e \in Endpoints :
          parseRun = [endpoint |-> e, pc |-> "call",
                      result |-> [raised |-> None, target |-> NoTarget]]
    /\ stampRun = None
    /\ solverCall = None
    /\ fetchRequest = None
    /\ lightpanda = None
    /\ sanitizeRun = None

ParseSpec == ParseInit /\ [][ParseNext]_vars

\* the endpoint reads scheme://host:port with one of the four schemes (in
\* any case), a host and a port number from 1 to 65535
WellFormedEndpoint(e) ==
    /\ e.scheme \in { "ws", "WS", "wss", "http", "https" }
    /\ e.slashes
    /\ e.host # ""
    /\ e.port \in { ":9222", ":09222" }

(***************************************************************************)
(* C32: parse_cdp_target returns a target exactly for the endpoints whose  *)
(* scheme is ws, wss, http or https and that have a host and a port other  *)
(* than 0, and the target is that host and port; for every other endpoint  *)
(* (no scheme, another scheme, no "//" and so no host, no host, no port,   *)
(* port 0 or a text that is no port) it raises ValueError and returns      *)
(* nothing.                                                                *)
(***************************************************************************)
C32_TargetIffWellFormed ==
    parseRun.pc = "left" =>
        LET e == parseRun.endpoint
            r == parseRun.result
        IN  IF WellFormedEndpoint(e)
                THEN /\ r.raised = None
                     /\ r.target.host \in { "127.0.0.1", "localhost" }
                     /\ r.target.host = "localhost" <=> e.host = "LocalHost"
                     /\ r.target.port = 9222
                ELSE /\ r.raised = "ValueError"
                     /\ r.target = NoTarget

\* a target was returned for an endpoint written in capitals with a leading
\* zero in its port
C32_Witness ==
    /\ parseRun.pc = "left"
    /\ parseRun.endpoint.scheme = "WS"
    /\ parseRun.endpoint.host = "LocalHost"
    /\ parseRun.endpoint.port = ":09222"
    /\ parseRun.result.target = [host |-> "localhost", port |-> 9222]

(***************************************************************************)
(* run_solver, solver_runner.py lines 11-80: the thread that calls it, the *)
(* event loop running in that thread (if any), and the coroutine _solve.   *)
(* asyncio.get_running_loop() returns only the loop that is running in the *)
(* calling thread, and a loop runs its next callback only when the         *)
(* callback it is in has returned.                                         *)
(***************************************************************************)
\* the dicts _solve returns: line 59 after an exception, line 70 otherwise
SolveFailed == [cookies |-> << >>, user_agent |-> None]
SolveResults ==
    { SolveFailed }
        \cup { [cookies |-> FormatCookies(l), user_agent |-> ua] :
                   l \in ListsUpTo(2), ua \in { ChosenUserAgent, BrowserUserAgent } }

\* the loop whose next callback can run: the loop asyncio.run made while
\* the thread is in its run_until_complete, the thread's own loop once the
\* callback that called run_solver has returned
LoopTurning ==
    IF solverCall.pc = "run_until_complete" THEN "new"
    ELSE IF solverCall.pc = "returned" /\ solverCall.threadLoop = "running"
             THEN "own"
             ELSE None

\* lines 15-19: get_chrome_path; its exception ends the call with no cookies
GetChromePath ==
    /\ solverCall.pc = "get_chrome_path"
    /\ \/ solverCall' = [solverCall EXCEPT !.pc = "get_running_loop"]
       \/ solverCall' = [solverCall EXCEPT !.pc = "returned",
                                           !.result = SolveFailed]
    /\ UNCHANGED <<program, stampRun, parseRun, fetchRequest,
                   lightpanda, sanitizeRun>>

\* lines 72-77: the running loop of this thread, or None
GetRunningLoop ==
    /\ solverCall.pc = "get_running_loop"
    /\ solverCall' = [solverCall EXCEPT
                          !.pc = IF solverCall.threadLoop = "running"
                                     THEN "run_coroutine_threadsafe"
                                     ELSE "asyncio_run"]
    /\ UNCHANGED <<program, stampRun, parseRun, fetchRequest,
                   lightpanda, sanitizeRun>>

\* lines 78-79: _solve is handed to the thread's own loop and the thread
\* waits in future.result()
RunCoroutineThreadsafe ==
    /\ solverCall.pc = "run_coroutine_threadsafe"
    /\ solverCall' = [solverCall EXCEPT !.pc = "future_result",
                                        !.scheduledOn = "own"]
    /\ UNCHANGED <<program, stampRun, parseRun, fetchRequest,
                   lightpanda, sanitizeRun>>

\* line 80: asyncio.run makes a loop and runs _solve on it to completion
AsyncioRun ==
    /\ solverCall.pc = "asyncio_run"
    /\ solverCall' = [solverCall EXCEPT !.pc = "run_until_complete",
                                        !.scheduledOn = "new"]
    /\ UNCHANGED <<program, stampRun, parseRun, fetchRequest,
                   lightpanda, sanitizeRun>>

\* the loop _solve was handed to runs it (lines 21-70); whoever waits for
\* it, in run_until_complete or in future.result(), returns its result
RunSolve ==
    /\ solverCall.scheduledOn # None
    /\ solverCall.scheduledOn = LoopTurning
    /\ \E r \in SolveResults :
          solverCall' = [solverCall EXCEPT
                            !.scheduledOn = None,
                            !.pc = "returned",
                            !.result = r]
    /\ UNCHANGED <<program, stampRun, parseRun, fetchRequest,
                   lightpanda, sanitizeRun>>

SolverCallNext ==
    \/ GetChromePath
    \/ GetRunningLoop
    \/ RunCoroutineThreadsafe
    \/ AsyncioRun
    \/ RunSolve

SolverCallInit ==
    /\ NoSession
    /\ \E l \in { "none", "running" }, via \in Proxies :
          solverCall = [threadLoop |-> l, proxy |-> via,
                        pc |-> "get_chrome_path", scheduledOn |-> None,
                        result |-> SolveFailed]
    /\ stampRun = None
    /\ parseRun = None
    /\ fetchRequest = None
    /\ lightpanda = None
    /\ sanitizeRun = None

SolverCallSpec == SolverCallInit /\ [][SolverCallNext]_vars

(***************************************************************************)
(* C35: run_solver always returns, be it called from a thread without an   *)
(* event loop or from a thread whose event loop is running: a call that    *)
(* has not returned is never in a state from which no step is possible,    *)
(* waiting for a coroutine that only its own thread could run.             *)
(***************************************************************************)
C35_NeverBlockedForever ==
    solverCall.pc # "returned" => ENABLED SolverCallNext

(***************************************************************************)
(* sanitize_cookies, components/cookies.py lines 4-26, called on the       *)
(* cookies a user pasted or uploaded (any JSON array) and on the cookies   *)
(* of the solver.  An attribute of a cookie is absent, a string, null or   *)
(* an object.                                                              *)
(***************************************************************************)
Absent == [kind |-> "absent", text |-> ""]
Null == [kind |-> "null", text |-> ""]
Object == [kind |-> "dict", text |-> ""]
Str(text) == [kind |-> "str", text |-> text]

SameSiteTexts ==
    { "Strict", "lax", "NONE", "None", "no_restriction", "unspecified" }

\* str.title()
Title(text) ==
    CASE text = "lax" -> "Lax"
      [] text = "NONE" -> "None"
      [] text = "no_restriction" -> "No_Restriction"
      [] text = "unspecified" -> "Unspecified"
      [] OTHER -> text

\* the cookies of the model, told apart by name
GivenCookies ==
    [name : { "cf_clearance" },
     sameSite : { Absent, Null } \cup { Str(t) : t \in SameSiteTexts },
     partitionKey : { Absent, Null, Object, Str("https://example.com") }]

RECURSIVE GivenLists(_)
GivenLists(n) ==
    IF n = 0 THEN { << >> }
    ELSE GivenLists(n - 1)
            \cup { Append(l, c) : l \in { k \in GivenLists(n - 1) : Len(k) = n - 1 },
                                  c \in GivenCookies }

\* lines 11-17: a partitionKey that is not a string is popped
SanitizePartitionKey(cookie) ==
    IF cookie.partitionKey.kind \in { "absent", "str" }
        THEN cookie
        ELSE [cookie EXCEPT !.partitionKey = Absent]

\* line 20 raises for a sameSite without a title method
SameSiteRaises(cookie) == cookie.sameSite.kind \in { "null", "dict" }

\* lines 19-24, for a sameSite that is absent or a string
SanitizeSameSite(cookie) ==
    IF cookie.sameSite.kind = "absent" THEN cookie
    ELSE IF Title(cookie.sameSite.text) \in { "Strict", "Lax", "None" }
             THEN [cookie EXCEPT !.sameSite = Str(Title(cookie.sameSite.text))]
             ELSE [cookie EXCEPT !.sameSite = Absent]

\* lines 9-26: the loop over the cookies; the first cookie whose sameSite
\* has no title method ends the call with AttributeError
RECURSIVE SanitizeFrom(_, _)
SanitizeFrom(cookies, sanitized) ==
    IF cookies = << >>
        THEN [raised |-> None, sanitized |-> sanitized]
        ELSE IF SameSiteRaises(Head(cookies))
                 THEN [raised |-> "AttributeError", sanitized |-> << >>]
                 ELSE SanitizeFrom(
                          Tail(cookies),
                          Append(sanitized,
                                 SanitizeSameSite(SanitizePartitionKey(Head(cookies)))))

SanitizeCookies(cookies) == SanitizeFrom(cookies, << >>)

\* a call of sanitize_cookies
CallSanitizeCookies ==
    /\ sanitizeRun.pc = "call"
    /\ sanitizeRun' = [sanitizeRun EXCEPT
                           !.pc = "left",
                           !.result = SanitizeCookies(sanitizeRun.cookies)]
    /\ UNCHANGED <<program, stampRun, parseRun, solverCall, fetchRequest,
                   lightpanda>>

SanitizeNext == CallSanitizeCookies

SanitizeInit ==
    /\ NoSession
    /\ \E l \in GivenLists(MaxSanitized) :
          sanitizeRun = [cookies |-> l, pc |-> "call",
                         result |-> [raised |-> None, sanitized |-> << >>]]
    /\ stampRun = None
    /\ parseRun = None
    /\ solverCall = None
    /\ fetchRequest = None
    /\ lightpanda = None

SanitizeSpec == SanitizeInit /\ [][SanitizeNext]_vars

\* what the claim says of a result, given the argument
Sanitized(given, sanitized) ==
    /\ Len(sanitized) = Len(given)
    /\ \A i \in 1 .. Len(given) :
          /\ sanitized[i].name = given[i].name
          /\ sanitized[i].sameSite.kind \in { "absent", "str" }
          /\ sanitized[i].sameSite.kind = "str"
                => sanitized[i].sameSite.text \in { "Strict", "Lax", "None" }
          /\ sanitized[i].partitionKey.kind \in { "absent", "str" }
    /\ SanitizeCookies(sanitized) = [raised |-> None, sanitized |-> sanitized]

(***************************************************************************)
(* C39: sanitize_cookies returns the cookies in the same number and order  *)
(* as given; in its result every sameSite is one of Strict, Lax, None and  *)
(* every partitionKey is a string; and applied to its own result it        *)
(* returns that result unchanged.                                          *)
(***************************************************************************)
C39_SanitizedSameCookiesIdempotent ==
    sanitizeRun.pc = "left" =>
        /\ sanitizeRun.result.raised = None
        /\ Sanitized(sanitizeRun.cookies, sanitizeRun.result.sanitized)

(***************************************************************************)
(* A fetch request of a scraper page: ai_chat_scraper.py lines 111-153 and *)
(* auto_table_scraper.py lines 296-338, which read the same.  fetch_page   *)
(* and run_solver are calls to the outside; the request keeps the list of  *)
(* its fetch_page calls and counts its run_solver calls.                   *)
(***************************************************************************)
\* Python's `a or b` for strings and None
Or(a, b) == IF a \in { None, "" } THEN b ELSE a

\* the status fetch_page reports (page_fetcher.py lines 65, 67, 76)
Statuses == { "ok", "cloudflare_challenge", "error" }

\* the user agent the user typed into the page
TypedUserAgent == "Mozilla/5.0 Firefox/120.0"

\* cookies as the browser of the solver reports them
CdpCookies ==
    [name : { "cf_clearance" },
     sameSite : { Absent, Str("Strict"), Str("Lax"), Str("None") },
     partitionKey : { Absent, Object }]

\* what run_solver returns: no cookies and no user agent after a failure,
\* else the cookies of the browser (maybe none) and a user agent
RunSolverResults ==
    { SolveFailed }
        \cup { [cookies |-> l, user_agent |-> ua] :
                   l \in { << >> } \cup { <<c>> : c \in CdpCookies },
                   ua \in { ChosenUserAgent, BrowserUserAgent } }

\* a plausible slip: the user agent the user typed comes first
RefetchUserAgentTypedFirst(solver_user_agent, final_user_agent) ==
    Or(final_user_agent, solver_user_agent)

\* lines 127 and 150: the user agent of the second fetch
RefetchUserAgent(solver_user_agent, final_user_agent) ==
    Or(Or(solver_user_agent, final_user_agent), final_user_agent)

\* lines 111-121: the first fetch, with the cookies and the user agent of
\* the user, and the test for the solver
FetchPage ==
    /\ fetchRequest.pc = "fetch_page"
    /\ \E status \in Statuses :
          fetchRequest' =
              [fetchRequest EXCEPT
                  !.fetches = Append(@, [cookies |-> fetchRequest.loaded_cookies,
                                         user_agent |-> fetchRequest.final_user_agent,
                                         status |-> status]),
                  !.status = status,
                  !.pc = IF fetchRequest.use_solver /\ status = "cloudflare_challenge"
                             THEN "run_solver"
                             ELSE "check_result"]
    /\ UNCHANGED <<program, stampRun, parseRun, solverCall, lightpanda,
                   sanitizeRun>>

\* lines 122-140: run_solver, st.stop() without cookies, else the cookies
\* are sanitized and kept for the session
RunSolver ==
    /\ fetchRequest.pc = "run_solver"
    /\ \E r \in RunSolverResults :
          fetchRequest' =
              [fetchRequest EXCEPT
                  !.solves = @ + 1,
                  !.solver_result = r,
                  !.sanitized = IF r.cookies = << >>
                                    THEN << >>
                                    ELSE SanitizeCookies(r.cookies).sanitized,
                  !.pc = IF r.cookies = << >> THEN "stopped" ELSE "refetch"]
    /\ UNCHANGED <<program, stampRun, parseRun, solverCall, lightpanda,
                   sanitizeRun>>

\* lines 142-151: the second fetch
Refetch ==
    /\ fetchRequest.pc = "refetch"
    /\ \E status \in Statuses :
          fetchRequest' =
              [fetchRequest EXCEPT
                  !.fetches = Append(@, [cookies |-> fetchRequest.sanitized,
                                         user_agent |->
                                             RefetchUserAgent(
                                                 fetchRequest.solver_result.user_agent,
                                                 fetchRequest.final_user_agent),
                                         status |-> status]),
                  !.status = status,
                  !.pc = "check_result"]
    /\ UNCHANGED <<program, stampRun, parseRun, solverCall, lightpanda,
                   sanitizeRun>>

\* lines 153-155: st.stop() unless the last fetch was ok
CheckResult ==
    /\ fetchRequest.pc = "check_result"
    /\ fetchRequest' = [fetchRequest EXCEPT
                            !.pc = IF fetchRequest.status # "ok"
                                       THEN "stopped" ELSE "scraped"]
    /\ UNCHANGED <<program, stampRun, parseRun, solverCall, lightpanda,
                   sanitizeRun>>

FetchNext ==
    \/ FetchPage
    \/ RunSolver
    \/ Refetch
    \/ CheckResult

FetchInit ==
    /\ NoSession
    /\ \E use_solver \in BOOLEAN, ua \in { None, TypedUserAgent },
          loaded \in { << >> } \cup { <<c>> : c \in CdpCookies } :
          fetchRequest = [use_solver |-> use_solver, final_user_agent |-> ua,
                          loaded_cookies |-> loaded, pc |-> "fetch_page",
                          fetches |-> << >>, status |-> None, solves |-> 0,
                          solver_result |-> SolveFailed, sanitized |-> << >>]
    /\ stampRun = None
    /\ parseRun = None
    /\ solverCall = None
    /\ lightpanda = None
    /\ sanitizeRun = None

FetchSpec == FetchInit /\ [][FetchNext]_vars

\* the request is past its call of run_solver
Solved == fetchRequest.solves > 0
RequestOver == fetchRequest.pc \in { "stopped", "scraped" }

(***************************************************************************)
(* C36: a fetch request calls the solver at most once, and only with the   *)
(* solver option on and after a first fetch that reported a Cloudflare     *)
(* challenge; it fetches at most twice; a second fetch happens only after  *)
(* a solve that returned cookies, carries those cookies sanitized and the  *)
(* user agent of the solver, and is made whenever the solve returned       *)
(* cookies; a solve without cookies stops the request after one fetch.     *)
(***************************************************************************)
C36_OneSolveOneRefetch ==
    LET r == fetchRequest
        n == Len(r.fetches)
    IN  /\ r.solves <= 1
        /\ n <= 2
        /\ Solved => /\ r.use_solver
                     /\ n >= 1
                     /\ r.fetches[1].status = "cloudflare_challenge"
        /\ n = 2 => /\ Solved
                    /\ r.solver_result.cookies # << >>
                    /\ r.fetches[2].cookies
                           = SanitizeCookies(r.solver_result.cookies).sanitized
                    /\ r.fetches[2].user_agent = r.solver_result.user_agent
        /\ Solved /\ r.solver_result.cookies = << >>
               => r.pc = "stopped" /\ n = 1
        /\ Solved /\ r.solver_result.cookies # << >> /\ RequestOver => n = 2

\* a solve returned a partitioned cookie and the browser's user agent to a
\* user who had typed one: the page was fetched again with the cookie less
\* its partition key and with the solver's user agent
C36_Witness ==
    /\ Len(fetchRequest.fetches) = 2
    /\ fetchRequest.final_user_agent = TypedUserAgent
    /\ fetchRequest.fetches[1].user_agent = TypedUserAgent
    /\ fetchRequest.fetches[2].user_agent = BrowserUserAgent
    /\ fetchRequest.solver_result.cookies[1].partitionKey = Object
    /\ fetchRequest.fetches[2].cookies[1].partitionKey = Absent
    /\ fetchRequest.pc = "scraped"

(***************************************************************************)
(* ensure_lightpanda_server with is_port_open, wait_for_port and           *)
(* start_lightpanda_server: lightpanda_service.py lines 39-53 and 89-128.  *)
(* The clock of this part counts tenths of a second.  The port and the     *)
(* server process belong to the environment: a running server may start    *)
(* to listen or exit at any time, and the port may be held by another      *)
(* process from the start.                                                 *)
(***************************************************************************)
\* timeout_s=0.5 of is_port_open, in tenths of a second
ProbeTimeout == 5
\* time.sleep(0.2)
SleepTenths == 2
\* startup_timeout_s: none, half a second, a second
StartupTimeouts == { 0, 5, 10 }
\* the time a probe takes: an answer at once, soon, or the connect timeout
ProbeDurations == { 0, 1, ProbeTimeout }

GoodEndpoint ==
    [scheme |-> "ws", slashes |-> TRUE, host |-> "127.0.0.1", port |-> ":9222"]
PortlessEndpoint == [GoodEndpoint EXCEPT !.port = ""]

NoProbe == [checked_at |-> -1, at |-> -1, open |-> FALSE]

\* a plausible slip: the deadline itself still counts as before the deadline
BeforeDeadlineOrAtIt(time, deadline) == time <= deadline

\* line 49: time.time() < deadline
BeforeDeadline(time, deadline) == time < deadline

\* line 112: parse_cdp_target; its ValueError leaves the call
ParseEndpoint ==
    /\ lightpanda.pc = "parse_cdp_target"
    /\ lightpanda' =
           [lightpanda EXCEPT
               !.pc = IF ParseCdpTarget(lightpanda.endpoint).raised = None
                          THEN "is_port_open" ELSE "raised",
               !.raised = ParseCdpTarget(lightpanda.endpoint).raised]
    /\ UNCHANGED <<program, stampRun, parseRun, solverCall, fetchRequest,
                   sanitizeRun>>

\* lines 113-114: the first probe; None is returned for an open port
IsPortOpenFirst ==
    /\ lightpanda.pc = "is_port_open"
    /\ \E d \in ProbeDurations :
          lightpanda' =
              [lightpanda EXCEPT
                  !.clock = @ + d,
                  !.pc = IF lightpanda.portOpen THEN "returned"
                         ELSE "start_lightpanda_server",
                  !.result = "None"]
    /\ UNCHANGED <<program, stampRun, parseRun, solverCall, fetchRequest,
                   sanitizeRun>>

\* lines 116-120 and 89-104: ensure_binary or Popen raises, or the server
\* process runs
StartLightpandaServer ==
    /\ lightpanda.pc = "start_lightpanda_server"
    /\ \/ lightpanda' = [lightpanda EXCEPT !.pc = "raised",
                                           !.raised = "OSError"]
       \/ lightpanda' = [lightpanda EXCEPT !.pc = "wait_for_port",
                                           !.process = "running",
                                           !.started = @ + 1]
    /\ UNCHANGED <<program, stampRun, parseRun, solverCall, fetchRequest,
                   sanitizeRun>>

\* line 48: deadline = time.time() + timeout_s
WaitForPort ==
    /\ lightpanda.pc = "wait_for_port"
    /\ lightpanda' = [lightpanda EXCEPT
                          !.pc = "while",
                          !.deadline = lightpanda.clock + lightpanda.timeout_s]
    /\ UNCHANGED <<program, stampRun, parseRun, solverCall, fetchRequest,
                   sanitizeRun>>

\* lines 49 and 53: the loop check; TimeoutError once it is false
WaitLoopCheck ==
    /\ lightpanda.pc = "while"
    /\ lightpanda' =
           [lightpanda EXCEPT
               !.checked_at = lightpanda.clock,
               !.pc = IF BeforeDeadline(lightpanda.clock, lightpanda.deadline)
                          THEN "probe" ELSE "except",
               !.waitRaised =
                      IF BeforeDeadline(lightpanda.clock, lightpanda.deadline)
                          THEN None ELSE "TimeoutError"]
    /\ UNCHANGED <<program, stampRun, parseRun, solverCall, fetchRequest,
                   sanitizeRun>>

\* lines 50-51 and 39-44: a probe, which takes its time; wait_for_port
\* returns when it found the port open, and line 128 returns the process
IsPortOpen ==
    /\ lightpanda.pc = "probe"
    /\ \E d \in ProbeDurations :
          lightpanda' =
              [lightpanda EXCEPT
                  !.clock = @ + d,
                  !.probe = [checked_at |-> lightpanda.checked_at,
                             at |-> lightpanda.clock + d,
                             open |-> lightpanda.portOpen],
                  !.probes = @ + 1,
                  !.pc = IF lightpanda.portOpen THEN "returned" ELSE "sleep",
                  !.result = IF lightpanda.portOpen THEN "process" ELSE @]
    /\ UNCHANGED <<program, stampRun, parseRun, solverCall, fetchRequest,
                   sanitizeRun>>

\* line 52
TimeSleep ==
    /\ lightpanda.pc = "sleep"
    /\ lightpanda' = [lightpanda EXCEPT !.clock = @ + SleepTenths,
                                        !.pc = "while"]
    /\ UNCHANGED <<program, stampRun, parseRun, solverCall, fetchRequest,
                   sanitizeRun>>

\* lines 122-126: RuntimeError for a process that has exited, else the
\* exception of wait_for_port goes on; the process is not touched
ExceptHandler ==
    /\ lightpanda.pc = "except"
    /\ lightpanda' = [lightpanda EXCEPT
                          !.pc = "raised",
                          !.raised = IF lightpanda.process = "exited"
                                         THEN "RuntimeError"
                                         ELSE lightpanda.waitRaised]
    /\ UNCHANGED <<program, stampRun, parseRun, solverCall, fetchRequest,
                   sanitizeRun>>

\* the server that was started binds the port
ServerListens ==
    /\ lightpanda.process = "running"
    /\ ~lightpanda.portOpen
    /\ lightpanda.pc \notin { "returned", "raised" }
    /\ lightpanda' = [lightpanda EXCEPT !.portOpen = TRUE]
    /\ UNCHANGED <<program, stampRun, parseRun, solverCall, fetchRequest,
                   sanitizeRun>>

\* the server that was started exits, before it listens
ServerExits ==
    /\ lightpanda.process = "running"
    /\ ~lightpanda.portOpen
    /\ lightpanda.pc \notin { "returned", "raised" }
    /\ lightpanda' = [lightpanda EXCEPT !.process = "exited"]
    /\ UNCHANGED <<program, stampRun, parseRun, solverCall, fetchRequest,
                   sanitizeRun>>

LightpandaNext ==
    \/ ParseEndpoint
    \/ IsPortOpenFirst
    \/ StartLightpandaServer
    \/ WaitForPort
    \/ WaitLoopCheck
    \/ IsPortOpen
    \/ TimeSleep
    \/ ExceptHandler
    \/ ServerListens
    \/ ServerExits

LightpandaInit ==
    /\ NoSession
    /\ \E e \in { GoodEndpoint, PortlessEndpoint }, t \in StartupTimeouts,
          held \in BOOLEAN :
          lightpanda = [endpoint |-> e, timeout_s |-> t, portOpen |-> held,
                        pc |-> "parse_cdp_target", clock |-> 0, deadline |-> 0,
                        checked_at |-> 0, probe |-> NoProbe, probes |-> 0,
                        process |-> "none", started |-> 0,
                        waitRaised |-> None, raised |-> None,
                        result |-> "None"]
    /\ stampRun = None
    /\ parseRun = None
    /\ solverCall = None
    /\ fetchRequest = None
    /\ sanitizeRun = None

LightpandaSpec == LightpandaInit /\ [][LightpandaNext]_vars

\* ensure_lightpanda_server returned its process: wait_for_port returned
WaitReturned == lightpanda.pc = "returned" /\ lightpanda.result = "process"
\* the call is in wait_for_port
Waiting == lightpanda.pc \in { "while", "probe", "sleep" }

(***************************************************************************)
(* C37: ensure_lightpanda_server starts no process and returns None when   *)
(* the port accepts connections at its first probe; it starts at most one  *)
(* process and returns it only after a probe found the port open; and      *)
(* when it has raised, no process it started is running.                   *)
(***************************************************************************)
C37_NoServerLeftAfterRaise ==
    /\ lightpanda.started <= 1
    /\ lightpanda.pc = "returned" /\ lightpanda.result = "None"
           => lightpanda.started = 0
    /\ WaitReturned => lightpanda.started = 1 /\ lightpanda.probe.open
    /\ lightpanda.pc = "raised" => lightpanda.process # "running"

(***************************************************************************)
(* C38, as stated: wait_for_port returns normally only if a probe observed *)
(* the port open at a time before the deadline.                            *)
(***************************************************************************)
C38_ObservedOpenBeforeDeadline ==
    WaitReturned =>
        /\ lightpanda.probe.open
        /\ lightpanda.probe.at < lightpanda.deadline

(***************************************************************************)
(* C38, amended: wait_for_port terminates, within the deadline plus one    *)
(* probe and one sleep; it returns normally only if a probe found the port *)
(* open, and the loop check before that probe, not the probe's answer, was *)
(* before the deadline: the answer may come up to the probe's connect      *)
(* timeout (0.5 s) after it.  It raises TimeoutError only at a loop check  *)
(* at or after the deadline, and no probe follows such a check.            *)
(***************************************************************************)
C38_CheckedBeforeDeadline ==
    /\ WaitReturned =>
           /\ lightpanda.probe.open
           /\ lightpanda.probe.checked_at < lightpanda.deadline
           /\ lightpanda.probe.at < lightpanda.deadline + ProbeTimeout
    /\ lightpanda.pc = "probe" => lightpanda.checked_at < lightpanda.deadline
    /\ lightpanda.probes > 0 => lightpanda.probe.checked_at < lightpanda.deadline
    /\ lightpanda.waitRaised = "TimeoutError"
           => /\ lightpanda.checked_at >= lightpanda.deadline
              /\ lightpanda.pc \in { "except", "raised" }
              /\ lightpanda.probes = 0 \/ ~lightpanda.probe.open
    /\ Waiting => lightpanda.clock
                      < lightpanda.deadline + ProbeTimeout + SleepTenths

\* wait_for_port returned on a probe that was begun before the deadline and
\* answered after it
C38_Witness ==
    /\ WaitReturned
    /\ lightpanda.probe.checked_at < lightpanda.deadline
    /\ lightpanda.probe.at > lightpanda.deadline
    /\ lightpanda.probes > 1


====
